---- MODULE Spec2Model ----
(***************************************************************************)
(* A model of the Rocket.Chat channel plugin:                              *)
(*   - the realtime (DDP over WebSocket) session, class RocketChatRealtime *)
(*     of src/src/rocketchat/realtime.ts, driven by its callers and by the *)
(*     events of the sockets it opens (specifications Spec, SpecRpc,       *)
(*     FairSpec and SpecBackoff);                                          *)
(*   - the monitor on top of it: the dispatch of inbound room messages to  *)
(*     the asynchronous onMessage callback and the access decisions of     *)
(*     handleIncomingMessage (specification SpecMonitor).                  *)
(*                                                                         *)
(* JavaScript runs one event (a socket event, a timer, a call from the     *)
(* embedding program) to completion, promise continuations included,       *)
(* before the next event starts.  An action of the session model is one    *)
(* such event together with every continuation it releases.  Code that     *)
(* awaits real I/O (a REST request, a file) spans several events and is    *)
(* modelled by several actions and a program counter.                      *)
(***************************************************************************)
EXTENDS Integers, Sequences, FiniteSets, Bags, TLC

(***************************************************************************)
(* Bounds of the model.                                                    *)
(***************************************************************************)
\* Sockets one session may open (the first connect and the reconnects).
MaxSockets == 4
\* Highest id nextId() hands out before the model stops issuing new ones.
MaxMsgId == 10
\* The same two bounds where the callers make RPC calls instead of subscribing.
RpcSockets == 3
MaxRpcIds == 6
\* The same two bounds where the server and the timers are fair.
FairSockets == 2
FairIds == 4
\* Room messages the session delivers to the monitor.
MaxInbound == 3
\* callMethod calls made by the embedding program (the typing indicator).
MaxExtCalls == 1
\* Sockets of the backoff specification (no subscriptions, no RPC callers), and
\* the failed attempts in a row it may start after.
BackoffSockets == 4
FailedBefore == 4
ReconnSockets == 3
MaxCalls == 3
\* pairing.ts MAX_PENDING, and PAIRING_TTL_MS in units of the clock.
MaxAcl == 2
MaxDeliveries == 4
\* The sizes above which the cleanup timer clears recentMessageIds and
\* processedReactions, 1000 and 500 in the code.
RecentIdsLimit == 2
ReactionKeysLimit == 2
MAX_PENDING == 3
MaxPatterns == 3
MaxExpiry == 2
StartupSockets == 3
MaxReplies == 2
MaxReacted == 3
MaxDenied == 2
RaceSockets == 4
UserSubSockets == 3
UserSubIds == 5
MaxPieces == 5
MaxDrops == 3
MaxTyping == 2
MaxTypingStarts == 3
PairingTtl == 2
\* The time the clock is followed to.
MaxClock == 2
\* Calls of upsertChannelPairingRequest in the specification of its store.
MaxUpserts == 4
\* Messages that arrive in the specification of the approval commands.
MaxCommands == 2

(***************************************************************************)
(* Program constants.                                                      *)
(***************************************************************************)
BaseDelayMs == 5000
reconnectMaxDelayMs == 60000

\* this.ws === null
NoSock == 0

Min(a, b) == IF a < b THEN a ELSE b

RECURSIVE Pow2(_)
Pow2(n) == IF n = 0 THEN 1 ELSE 2 * Pow2(n - 1)

\* The entry of schedLog that marks a successful login.
LiveMark == 0

(***************************************************************************)
(* Room ids as the callers pass them: strings over a two-letter alphabet   *)
(* and the blank, so that String.trim() has something to do.               *)
(***************************************************************************)
Blank == " "
RoomInputs == { <<Blank>>, <<"a">>, <<Blank, "a">>, <<"b", Blank>> }
\* The room lists refreshSubscriptions passes to subscribeToRooms.
RoomLists == { <<<<"a">>, <<"b">>>>, <<<<"b", Blank>>, <<>>, <<"a">>>> }

RECURSIVE TrimLeft(_)
TrimLeft(s) ==
    IF s # <<>> /\ Head(s) = Blank THEN TrimLeft(Tail(s)) ELSE s

RECURSIVE TrimRight(_)
TrimRight(s) ==
    IF s # <<>> /\ s[Len(s)] = Blank THEN TrimRight(SubSeq(s, 1, Len(s) - 1)) ELSE s

Trim(s) == TrimRight(TrimLeft(s))

Rooms == { Trim(i) : i \in RoomInputs } \ { <<>> }
\* The user event the monitor subscribes to, and the names callers of the
\* session may pass.
MonitoredEvents == { "subscriptions-changed" }
UserEvents == MonitoredEvents \cup { "rooms-changed" }

Range(f) == { f[i] : i \in DOMAIN f }

VARIABLES
    \* --- fields of RocketChatRealtime ---
    ws,                  \* the socket this.ws refers to, NoSock for null
    messageId,           \* counter behind nextId()
    pendingCalls,        \* keys of the pendingCalls map
    desiredRoomIds,      \* the Set, in insertion order
    activeSubIdsByRoom,  \* room -> subscription id, 0 for no entry
    subscriptions,       \* user event -> subscription id, 0 for no entry
    pingInterval,        \* TRUE when the field holds a timer handle
    reconnectTimeout,    \* TRUE when the field holds a timer handle
    isConnected,
    shouldReconnect,
    reconnectDelayMs,
    \* --- the sockets and the server behind them ---
    sock,                \* socket -> phase
    attempt,             \* socket -> the connect() call that opened it
    connectSent,         \* socket -> a DDP connect frame was written to it
    connectedSeen,       \* socket -> its "connected" frame was delivered
    unanswered,          \* socket -> method ids written to it and not answered
    loginWait,           \* socket -> id its "connected" handler awaits in login()
    timersLive,          \* keep-alive intervals and reconnect timeouts running
    \* --- what the model records about the run ---
    subsSent,            \* room sub frames written: [sock, id, room]
    userSubCalls,        \* subscribeToUserEvent calls: [name, id, sock]
    callLog,             \* id -> state of the promise callMethod returned
    extCalls,            \* callMethod calls made by the embedding program
    schedLog,            \* delays scheduled, and a LiveMark for every successful login
    everPassed,          \* trimmed non-empty ids ever passed to subscribeToRoom
    lateResults,         \* ids whose result frame found no pending call
    lim,                 \* the bounds this run is explored under
    \* --- the monitor: inbound messages and what decides them ---
    config,              \* account.config, fixed when the monitor starts
    arrived,             \* room messages the session has delivered so far
    handlers,            \* the onMessage calls, in the order they were started
    recentMessageIds,    \* the ids isDuplicate has seen
    roomCache,           \* room ids getRoom has cached the room of
    allowFromStore,      \* store id -> entries of its allowFrom file
    processedReactions,  \* the reaction keys that have been processed
    stores,              \* the store objects of the approval queue: store.pending of each
    cache,               \* the store object the module's cache points to, 0 for null
    queueFile,           \* store.pending in the file of the approval queue
    thisMs,              \* ids of the approvals created in the current millisecond
    overdue,             \* ids of the approvals whose expiresAt has passed
    minted,              \* approval ids given out
    pairingStore,        \* store.requests in the file of the pairing requests
    clock,               \* the time, in units of which PairingTtl make the TTL
    roomUsers,           \* room-users.ts: the store objects, the cache, the file
    forwarded,           \* messages handed to the agent
    sentTexts            \* what the plugin sent, a bag of [to, text, by]

sessionVars ==
    << ws, messageId, pendingCalls, desiredRoomIds, activeSubIdsByRoom, subscriptions,
       pingInterval, reconnectTimeout, isConnected, shouldReconnect, reconnectDelayMs,
       sock, attempt, connectSent, connectedSeen, unanswered, loginWait, timersLive,
       subsSent, userSubCalls, callLog, extCalls, schedLog, everPassed, lateResults, lim >>
monitorVars ==
    << config, arrived, handlers, recentMessageIds, processedReactions, roomCache,
       allowFromStore, stores, cache, queueFile, thisMs, overdue, minted, pairingStore,
       clock, roomUsers, forwarded, sentTexts >>
vars == << sessionVars, monitorVars >>

(***************************************************************************)
(* The session as one record, so that a handler is a function from the     *)
(* state before it to the state after it and handlers compose the way the  *)
(* code calls them.                                                        *)
(***************************************************************************)
World ==
    [ ws |-> ws, messageId |-> messageId, pendingCalls |-> pendingCalls,
      desiredRoomIds |-> desiredRoomIds, activeSubIdsByRoom |-> activeSubIdsByRoom,
      subscriptions |-> subscriptions, pingInterval |-> pingInterval,
      reconnectTimeout |-> reconnectTimeout, isConnected |-> isConnected,
      shouldReconnect |-> shouldReconnect, reconnectDelayMs |-> reconnectDelayMs,
      sock |-> sock, attempt |-> attempt, connectSent |-> connectSent,
      connectedSeen |-> connectedSeen, unanswered |-> unanswered,
      loginWait |-> loginWait, timersLive |-> timersLive, subsSent |-> subsSent,
      userSubCalls |-> userSubCalls, callLog |-> callLog, extCalls |-> extCalls,
      schedLog |-> schedLog, everPassed |-> everPassed, lateResults |-> lateResults,
      lim |-> lim ]

Commit(w) ==
    /\ ws' = w.ws
    /\ messageId' = w.messageId
    /\ pendingCalls' = w.pendingCalls
    /\ desiredRoomIds' = w.desiredRoomIds
    /\ activeSubIdsByRoom' = w.activeSubIdsByRoom
    /\ subscriptions' = w.subscriptions
    /\ pingInterval' = w.pingInterval
    /\ reconnectTimeout' = w.reconnectTimeout
    /\ isConnected' = w.isConnected
    /\ shouldReconnect' = w.shouldReconnect
    /\ reconnectDelayMs' = w.reconnectDelayMs
    /\ sock' = w.sock
    /\ attempt' = w.attempt
    /\ connectSent' = w.connectSent
    /\ connectedSeen' = w.connectedSeen
    /\ unanswered' = w.unanswered
    /\ loginWait' = w.loginWait
    /\ timersLive' = w.timersLive
    /\ subsSent' = w.subsSent
    /\ userSubCalls' = w.userSubCalls
    /\ callLog' = w.callLog
    /\ extCalls' = w.extCalls
    /\ schedLog' = w.schedLog
    /\ everPassed' = w.everPassed
    /\ lateResults' = w.lateResults
    /\ lim' = w.lim

\* The session is in the state the record w describes.
Is(w) ==
    /\ ws = w.ws
    /\ messageId = w.messageId
    /\ pendingCalls = w.pendingCalls
    /\ desiredRoomIds = w.desiredRoomIds
    /\ activeSubIdsByRoom = w.activeSubIdsByRoom
    /\ subscriptions = w.subscriptions
    /\ pingInterval = w.pingInterval
    /\ reconnectTimeout = w.reconnectTimeout
    /\ isConnected = w.isConnected
    /\ shouldReconnect = w.shouldReconnect
    /\ reconnectDelayMs = w.reconnectDelayMs
    /\ sock = w.sock
    /\ attempt = w.attempt
    /\ connectSent = w.connectSent
    /\ connectedSeen = w.connectedSeen
    /\ unanswered = w.unanswered
    /\ loginWait = w.loginWait
    /\ timersLive = w.timersLive
    /\ subsSent = w.subsSent
    /\ userSubCalls = w.userSubCalls
    /\ callLog = w.callLog
    /\ extCalls = w.extCalls
    /\ schedLog = w.schedLog
    /\ everPassed = w.everPassed
    /\ lateResults = w.lateResults
    /\ lim = w.lim

(***************************************************************************)
(* Socket phases.  The ws library reports CONNECTING, OPEN, CLOSING and    *)
(* CLOSED; the model splits CLOSING by what can still happen on the        *)
(* socket: after a local close() frames may still arrive, after an error   *)
(* or a close started by the peer none does.                               *)
(***************************************************************************)
Phases == { "NEW", "CONNECTING", "OPEN", "CLOSING_LOCAL", "ABORTING", "CLOSING_PEER",
            "ERRORED", "CLOSED" }

readyState(w, s) ==
    CASE w.sock[s] = "CONNECTING" -> "CONNECTING"
      [] w.sock[s] = "OPEN" -> "OPEN"
      [] w.sock[s] = "CLOSED" -> "CLOSED"
      [] OTHER -> "CLOSING"

\* this.ws?.readyState === WebSocket.OPEN
WsOpen(w) == w.ws # NoSock /\ readyState(w, w.ws) = "OPEN"

\* The socket still delivers "message" events.
Readable(w, s) == w.sock[s] \in { "OPEN", "CLOSING_LOCAL" }

\* What the socket this.ws refers to records of a frame written to it.
Written(w, frame) ==
    CASE frame.msg = "connect" -> [w EXCEPT !.connectSent[w.ws] = TRUE]
      [] frame.msg = "method" -> [w EXCEPT !.unanswered[w.ws] = @ \cup { frame.id }]
      [] frame.msg = "sub" ->
            [w EXCEPT !.subsSent = @ \cup { [sock |-> w.ws, id |-> frame.id, room |-> frame.room] }]
      [] OTHER -> w

send(w, frame) == IF WsOpen(w) THEN Written(w, frame) ELSE w

nextId(w) == w.messageId + 1

callMethod(w) ==
    LET id == nextId(w)
        w1 == [w EXCEPT !.messageId = id,
                        !.pendingCalls = @ \cup { id },
                        !.callLog[id] = "pending"]
    IN  send(w1, [msg |-> "method", id |-> id])

\* A subscribeToRoom that remembers a room only when it can subscribe at once.
subscribeToRoomWhenOpen(w, roomId) ==
    LET trimmed == Trim(roomId)
    IN  IF trimmed = <<>> \/ ~w.isConnected \/ ~WsOpen(w) THEN w
        ELSE LET w1 == [w EXCEPT !.desiredRoomIds =
                            IF trimmed \in Range(@) THEN @ ELSE Append(@, trimmed)]
             IN  IF w1.activeSubIdsByRoom[trimmed] # 0 THEN w1
                 ELSE LET id == nextId(w1)
                          w2 == [w1 EXCEPT !.messageId = id,
                                           !.activeSubIdsByRoom[trimmed] = id]
                      IN  send(w2, [msg |-> "sub", id |-> id, room |-> trimmed])

subscribeToRoom(w, roomId) ==
    LET trimmed == Trim(roomId)
    IN  IF trimmed = <<>> THEN w
        ELSE LET w1 == [w EXCEPT !.desiredRoomIds =
                            IF trimmed \in Range(@) THEN @ ELSE Append(@, trimmed)]
             IN  IF ~w1.isConnected \/ ~WsOpen(w1) THEN w1
                 ELSE IF w1.activeSubIdsByRoom[trimmed] # 0 THEN w1
                 ELSE LET id == nextId(w1)
                          w2 == [w1 EXCEPT !.messageId = id,
                                           !.activeSubIdsByRoom[trimmed] = id]
                      IN  send(w2, [msg |-> "sub", id |-> id, room |-> trimmed])

RECURSIVE subscribeToRooms(_, _)
subscribeToRooms(w, roomIds) ==
    IF roomIds = <<>> THEN w
    ELSE subscribeToRooms(subscribeToRoom(w, Head(roomIds)), Tail(roomIds))

NoActiveSubs == [r \in Rooms |-> 0]

\* A resubscribeAll that forgets the subscriptions and replays none.
resubscribeNothing(w) ==
    IF ~w.isConnected THEN w ELSE [w EXCEPT !.activeSubIdsByRoom = NoActiveSubs]

resubscribeAll(w) ==
    IF ~w.isConnected THEN w
    ELSE subscribeToRooms([w EXCEPT !.activeSubIdsByRoom = NoActiveSubs], w.desiredRoomIds)

\* A subscribeToUserEvent that does not look for the name in subscriptions.
subscribeToUserEventAgain(w, eventName) ==
    LET id == nextId(w)
        w1 == [w EXCEPT !.messageId = id,
                        !.subscriptions[eventName] = id,
                        !.userSubCalls = @ \cup
                            { [name |-> eventName, id |-> id,
                               sock |-> IF WsOpen(w) THEN w.ws ELSE NoSock] }]
    IN  send(w1, [msg |-> "usersub", id |-> id])

subscribeToUserEvent(w, eventName) ==
    IF w.subscriptions[eventName] # 0 THEN w
    ELSE LET id == nextId(w)
             w1 == [w EXCEPT !.messageId = id,
                             !.subscriptions[eventName] = id,
                             !.userSubCalls = @ \cup
                                 { [name |-> eventName, id |-> id,
                                    sock |-> IF WsOpen(w) THEN w.ws ELSE NoSock] }]
         IN  send(w1, [msg |-> "usersub", id |-> id])

startPing(w) ==
    [w EXCEPT !.pingInterval = TRUE, !.timersLive.ping = @ + 1]

stopPing(w) ==
    IF w.pingInterval
    THEN [w EXCEPT !.pingInterval = FALSE, !.timersLive.ping = @ - 1]
    ELSE w

scheduleReconnect(w) ==
    IF w.reconnectTimeout THEN w
    ELSE LET delay == Min(w.reconnectDelayMs, reconnectMaxDelayMs)
         IN  [w EXCEPT !.reconnectTimeout = TRUE,
                       !.timersLive.reconnect = @ + 1,
                       !.schedLog = Append(@, delay),
                       !.reconnectDelayMs = Min(w.reconnectDelayMs * 2, reconnectMaxDelayMs)]

\* A rejectAllPending that rejects the calls and keeps them in the table.
rejectWithoutClearing(w, err) ==
    [w EXCEPT !.callLog = [id \in DOMAIN @ |->
                              IF id \in w.pendingCalls THEN err ELSE @[id]],
              !.loginWait = [s \in DOMAIN @ |->
                              IF @[s] \in w.pendingCalls THEN 0 ELSE @[s]]]

\* A login() whose promise is rejected throws inside the "connected" handler,
\* which ends there (the "message" listener catches and logs).  `err' is the
\* error the caller passes: "closed" from the close listener, "disconnected"
\* from disconnect().
rejectAllPending(w, err) ==
    [w EXCEPT !.callLog = [id \in DOMAIN @ |->
                              IF id \in w.pendingCalls THEN err ELSE @[id]],
              !.loginWait = [s \in DOMAIN @ |->
                              IF @[s] \in w.pendingCalls THEN 0 ELSE @[s]],
              !.pendingCalls = {}]

Settle(outcome, how) == IF outcome = "pending" THEN how ELSE "twice"

resolveOnce(w, s) ==
    IF w.attempt[s].settled THEN w
    ELSE [w EXCEPT !.attempt[s].settled = TRUE,
                   !.attempt[s].outcome = Settle(@, "resolved")]

rejectOnce(w, s) ==
    IF w.attempt[s].settled THEN w
    ELSE [w EXCEPT !.attempt[s].settled = TRUE,
                   !.attempt[s].outcome = Settle(@, "rejected")]

\* The body of connect() up to the registration of the listeners.
connect(w, s, kind) ==
    [w EXCEPT !.isConnected = FALSE,
              !.activeSubIdsByRoom = NoActiveSubs,
              !.ws = s,
              !.sock[s] = "CONNECTING",
              !.attempt[s] = [kind |-> kind, settled |-> FALSE, outcome |-> "pending"]]

\* ws.on("open")
openHandler(w) == send(w, [msg |-> "connect"])

\* handleMessage, case "connected", up to the await in login().
connectedHandler(w, s) ==
    LET w1 == callMethod(w)
    IN  [w1 EXCEPT !.loginWait[s] = w1.messageId, !.connectedSeen[s] = TRUE]

\* A login continuation that leaves the reconnect delay where the backoff put it.
continuationKeepingDelay(w, s) ==
    LET w1 == [w EXCEPT !.isConnected = TRUE, !.schedLog = Append(@, LiveMark)]
    IN  resolveOnce(resubscribeAll(startPing(w1)), s)

\* handleMessage, case "connected", after login() has resolved.
connectedContinuation(w, s) ==
    LET w1 == [w EXCEPT !.isConnected = TRUE,
                        !.reconnectDelayMs = BaseDelayMs,
                        !.schedLog = Append(@, LiveMark)]
        w2 == startPing(w1)
        w3 == resubscribeAll(w2)
    IN  resolveOnce(w3, s)

\* handleMessage, case "result", and the continuation of the login() it settles.
resultHandler(w, id, isError) ==
    IF id \notin w.pendingCalls THEN [w EXCEPT !.lateResults = @ \cup { id }]
    ELSE LET w1 == [w EXCEPT !.pendingCalls = @ \ { id },
                             !.callLog[id] = IF isError THEN "rpcError" ELSE "resolved"]
             waiting == { s \in DOMAIN w.loginWait : w.loginWait[s] = id }
         IN  IF waiting = {} THEN w1
             ELSE LET s == CHOOSE x \in waiting : TRUE
                      w2 == [w1 EXCEPT !.loginWait[s] = 0]
                  IN  IF isError THEN w2 ELSE connectedContinuation(w2, s)

\* A close listener that cleans up and leaves the reconnect to others.
closeWithoutReconnect(w, s) ==
    LET w1 == IF ~w.isConnected THEN rejectOnce(w, s) ELSE w
        w2 == [w1 EXCEPT !.isConnected = FALSE]
        w3 == stopPing(w2)
        w4 == rejectAllPending(w3, "closed")
    IN  [w4 EXCEPT !.ws = NoSock]

\* ws.on("close")
closeHandler(w, s) ==
    LET w1 == IF ~w.isConnected THEN rejectOnce(w, s) ELSE w
        w2 == [w1 EXCEPT !.isConnected = FALSE]
        w3 == stopPing(w2)
        w4 == rejectAllPending(w3, "closed")
        w5 == [w4 EXCEPT !.ws = NoSock]
    IN  IF w5.shouldReconnect THEN scheduleReconnect(w5) ELSE w5

\* ws.on("error")
errorHandler(w, s) == IF ~w.isConnected THEN rejectOnce(w, s) ELSE w

\* The .catch() scheduleReconnect attaches to the connect() it starts.
catchHandler(w) == IF w.shouldReconnect THEN scheduleReconnect(w) ELSE w

\* The continuations an event releases by rejecting socket s's connect():
\* only a connect() started by the reconnect timer has a catch handler here.
afterReject(before, w, s) ==
    IF /\ before.attempt[s].outcome = "pending"
       /\ w.attempt[s].outcome = "rejected"
       /\ w.attempt[s].kind = "timer"
    THEN catchHandler(w)
    ELSE w

\* WebSocket.close() as the ws library implements it.
wsClose(w, s) ==
    CASE w.sock[s] = "CONNECTING" -> [w EXCEPT !.sock[s] = "ABORTING"]
      [] w.sock[s] = "OPEN" -> [w EXCEPT !.sock[s] = "CLOSING_LOCAL"]
      [] OTHER -> w

disconnect(w) ==
    LET w1 == [w EXCEPT !.shouldReconnect = FALSE]
        w2 == stopPing(w1)
        w3 == rejectAllPending(w2, "disconnected")
        w4 == IF w3.reconnectTimeout
              THEN [w3 EXCEPT !.reconnectTimeout = FALSE, !.timersLive.reconnect = @ - 1]
              ELSE w3
    IN  IF w4.ws # NoSock
        THEN [wsClose(w4, w4.ws) EXCEPT !.ws = NoSock]
        ELSE w4

\* The callback of the reconnect timeout.
reconnectTimerFired(w, s) ==
    connect([w EXCEPT !.reconnectTimeout = FALSE, !.timersLive.reconnect = @ - 1], s, "timer")

(***************************************************************************)
(* The session after construction, explored under the bounds `limits'.     *)
(***************************************************************************)
Constructed(limits) ==
    [ lim |-> limits,
      ws |-> NoSock,
      messageId |-> 0,
      pendingCalls |-> {},
      desiredRoomIds |-> <<>>,
      activeSubIdsByRoom |-> NoActiveSubs,
      subscriptions |-> [e \in UserEvents |-> 0],
      pingInterval |-> FALSE,
      reconnectTimeout |-> FALSE,
      isConnected |-> FALSE,
      shouldReconnect |-> TRUE,
      reconnectDelayMs |-> BaseDelayMs,
      sock |-> [s \in 1..limits.socks |-> "NEW"],
      attempt |-> [s \in 1..limits.socks |->
                     [kind |-> "none", settled |-> FALSE, outcome |-> "pending"]],
      connectSent |-> [s \in 1..limits.socks |-> FALSE],
      connectedSeen |-> [s \in 1..limits.socks |-> FALSE],
      unanswered |-> [s \in 1..limits.socks |-> {}],
      loginWait |-> [s \in 1..limits.socks |-> 0],
      timersLive |-> [ping |-> 0, reconnect |-> 0],
      subsSent |-> {},
      userSubCalls |-> {},
      callLog |-> [id \in 1..(limits.msgId + 1) |-> "none"],
      extCalls |-> 0,
      schedLog |-> <<>>,
      everPassed |-> {},
      lateResults |-> {} ]

InitSession(limits) == Is(Constructed(limits))

\* Socket s opens, and the server answers method id on socket s: the events
\* as the handlers see them.
opened(w, s) == openHandler([w EXCEPT !.sock[s] = "OPEN"])
answered(w, s, id, isError) ==
    resultHandler([w EXCEPT !.unanswered[s] = @ \ { id }], id, isError)

\* subscribeToRooms called with roomIds, and the record of what was passed.
subscribed(w, roomIds) ==
    [subscribeToRooms(w, roomIds) EXCEPT
        !.everPassed = @ \cup ({ Trim(roomIds[i]) : i \in DOMAIN roomIds } \ { <<>> })]

\* The session of a monitor that has started: connect() has resolved on
\* socket 1 and refreshSubscriptions has subscribed to the rooms.
LiveSession(limits) ==
    LET w1 == opened(connect(Constructed(limits), 1, "initial"), 1)
        w2 == connectedHandler(w1, 1)
        w3 == answered(w2, 1, w2.loginWait[1], FALSE)
    IN  subscribed(w3, << <<"a">>, <<"b">> >>)

Socks == DOMAIN sock
FreshSocks == { s \in Socks : sock[s] = "NEW" /\ \A t \in Socks : t < s => sock[t] # "NEW" }

\* The model issues no id past its bound.
WithinIds(w) == w.messageId <= lim.msgId

(***************************************************************************)
(* Calls of the embedding program.                                         *)
(***************************************************************************)
\* monitorRocketChatProvider: await realtime.connect()
Connect ==
    /\ attempt[1].kind = "none"
    /\ shouldReconnect
    /\ Commit(connect(World, 1, "initial"))
    /\ UNCHANGED monitorVars

SubscribeToRoom(roomId) ==
    LET w == subscribeToRoom(World, roomId)
    IN  /\ WithinIds(w)
        /\ Commit([w EXCEPT !.everPassed =
                      IF Trim(roomId) = <<>> THEN @ ELSE @ \cup { Trim(roomId) }])
        /\ UNCHANGED monitorVars

\* refreshSubscriptions: the rooms the REST API lists, subscribed in order.
SubscribeToRooms(roomIds) ==
    LET w == subscribed(World, roomIds)
    IN  /\ WithinIds(w)
        /\ Commit(w)
        /\ UNCHANGED monitorVars

SubscribeToUserEvent(eventName) ==
    LET w == subscribeToUserEvent(World, eventName)
    IN  /\ WithinIds(w)
        /\ Commit(w)
        /\ UNCHANGED monitorVars

\* The typing indicator: realtime.callMethod("stream-notify-room", ...), called
\* from a message handler, so not before connect() has been called.
CallMethod ==
    LET w == callMethod(World)
    IN  /\ attempt[1].kind # "none"
        /\ extCalls < lim.ext
        /\ WithinIds(w)
        /\ Commit([w EXCEPT !.extCalls = @ + 1])
        /\ UNCHANGED monitorVars

\* The abort signal and the stop function both call realtime.disconnect().
Disconnect ==
    /\ attempt[1].kind # "none"
    /\ Commit(disconnect(World))
    /\ UNCHANGED monitorVars

(***************************************************************************)
(* Events of the sockets and of the reconnect timer.                       *)
(***************************************************************************)
OnOpen(s) ==
    /\ sock[s] = "CONNECTING"
    /\ Commit(opened(World, s))
    /\ UNCHANGED monitorVars

\* The server answers the connect frame.
OnConnected(s) ==
    LET w == connectedHandler(World, s)
    IN  /\ Readable(World, s)
        /\ connectSent[s]
        /\ ~connectedSeen[s]
        /\ WithinIds(w)
        /\ Commit(w)
        /\ UNCHANGED monitorVars

\* The server answers a method frame it received on socket s.
OnResult(s, id, isError) ==
    LET w == answered(World, s, id, isError)
    IN  /\ Readable(World, s)
        /\ id \in unanswered[s]
        /\ WithinIds(w)
        /\ Commit(w)
        /\ UNCHANGED monitorVars

\* The peer starts closing, or the transport goes down: readyState is CLOSING
\* until the close event is delivered.
OnPeerClosing(s) ==
    /\ sock[s] = "OPEN"
    /\ Commit([World EXCEPT !.sock[s] = "CLOSING_PEER"])
    /\ UNCHANGED monitorVars

\* An error on an established socket (a frame the receiver rejects): ws starts
\* the closing handshake and emits error; the close event follows when the
\* peer answers or the close timeout runs out.
OnError(s) ==
    LET w0 == [World EXCEPT !.sock[s] = "ERRORED"]
        w1 == errorHandler(w0, s)
    IN  /\ sock[s] \in { "OPEN", "CLOSING_LOCAL" }
        /\ Commit(afterReject(w0, w1, s))
        /\ UNCHANGED monitorVars

\* A failed or aborted opening handshake: ws emits error and close together.
OnErrorAndClose(s) ==
    LET w0 == [World EXCEPT !.sock[s] = "CLOSED"]
        w1 == errorHandler(w0, s)
        w2 == closeHandler(w1, s)
    IN  /\ sock[s] \in { "CONNECTING", "ABORTING" }
        /\ Commit(afterReject(w0, w2, s))
        /\ UNCHANGED monitorVars

OnClose(s) ==
    LET w0 == [World EXCEPT !.sock[s] = "CLOSED"]
        w1 == closeHandler(w0, s)
    IN  /\ sock[s] \in { "OPEN", "CLOSING_LOCAL", "CLOSING_PEER", "ERRORED" }
        /\ Commit(afterReject(w0, w1, s))
        /\ UNCHANGED monitorVars

ReconnectTimer ==
    /\ timersLive.reconnect > 0
    /\ \E s \in FreshSocks : Commit(reconnectTimerFired(World, s))
    /\ UNCHANGED monitorVars

(***************************************************************************)
(* The monitor (monitorRocketChatProvider and handleIncomingMessage): the  *)
(* server's users and rooms, the account configuration, and the strings    *)
(* the code compares.  Strings are atoms here, so each string function of  *)
(* the code is given by its values on the strings the model uses.          *)
(***************************************************************************)
Eve == [_id |-> "uE", username |-> "eve"]
Boss == [_id |-> "uB", username |-> "boss"]
Alice == [_id |-> "uA", username |-> "alice"]

\* The room of a user's DMs with the bot.
DmRoomOf(user) ==
    CASE user = Eve -> "dE"
      [] user = Alice -> "dA"
      [] user = Boss -> "dB"

\* What the REST API answers for a room id.
getRoom(rid) ==
    CASE rid = "dE" -> [_id |-> "dE", t |-> "d", name |-> ""]
      [] rid = "dB" -> [_id |-> "dB", t |-> "d", name |-> ""]
      [] rid = "dA" -> [_id |-> "dA", t |-> "d", name |-> ""]
      [] rid = "r1" -> [_id |-> "r1", t |-> "c", name |-> "room1"]
      [] rid = "rOps" -> [_id |-> "rOps", t |-> "p", name |-> "ops"]

roomKind(roomType) ==
    CASE roomType = "" -> "channel"
      [] roomType = "d" -> "dm"
      [] roomType \in { "p", "g" } -> "group"
      [] OTHER -> "channel"

\* String.toLowerCase
toLowerCase(x) ==
    CASE x = "uE" -> "ue"
      [] x = "uB" -> "ub"
      [] x = "uA" -> "ua"
      [] x = "rOps" -> "rops"
      [] x = "Alice" -> "alice"
      [] x = "@Alice" -> "@alice"
      [] x = "EVE" -> "eve"
      [] x = "Eve" -> "eve"
      [] x = "Ops" -> "ops"
      [] x = "Boss" -> "boss"
      [] x = "Admin" -> "admin"
      [] x = "Owner" -> "owner"
      [] x = "OK" -> "ok"
      [] x = "Deny" -> "deny"
      [] x = "List" -> "list"
      [] OTHER -> x

\* String.trim, for the strings of the model that have blanks around them.
trim(x) ==
    CASE x = " " -> ""
      [] x = " role:admin " -> "role:admin"
      [] OTHER -> x

StartsWithAt(x) == x \in { "@Alice", "@alice", "@boss", "@eve", "@nobody" }
StartsWithHash(x) == x \in { "#ops", "#Ops" }
StartsWithRoom(x) == x \in { "room:r1", "room:rOps", "room:Ops" }

\* x.replace(/^@/, ""), x.replace(/^#/, ""), x.replace(/^room:/, "")
StripAt(x) ==
    CASE x = "@Alice" -> "Alice"
      [] x = "@alice" -> "alice"
      [] x = "@boss" -> "boss"
      [] x = "@eve" -> "eve"
      [] x = "@nobody" -> "nobody"
      [] OTHER -> x
StripHash(x) ==
    CASE x = "#ops" -> "ops"
      [] x = "#Ops" -> "Ops"
      [] OTHER -> x
StripRoom(x) ==
    CASE x = "room:r1" -> "r1"
      [] x = "room:rOps" -> "rOps"
      [] x = "room:Ops" -> "Ops"
      [] OTHER -> x

\* None of the entries the model uses has blanks around it or a
\* "rocketchat:" / "user:" prefix.
normalizeAllowEntry(entry) == toLowerCase(StripAt(entry))
normalizeRoomEntry(entry) == toLowerCase(StripHash(StripRoom(entry)))

\* roles.ts, for the patterns @username, user id and bare username.
isApprover(userId, username, approverPatterns) ==
    \E k \in DOMAIN approverPatterns :
        LET trimmed == approverPatterns[k]
        IN  IF StartsWithAt(trimmed)
            THEN toLowerCase(username) = toLowerCase(StripAt(trimmed))
            ELSE trimmed = userId \/ toLowerCase(username) = toLowerCase(trimmed)

\* username of a principal that has none (undefined).
Undefined == "(undefined)"

StartsWithRole(x) == x \in { "role:admin", "role:Owner" }
\* x.slice(5) of a pattern that starts with "role:"
StripRole(x) ==
    CASE x = "role:admin" -> "admin"
      [] x = "role:Owner" -> "Owner"
      [] OTHER -> x

\* user.roles in the answer of users.info for the user id.
ServerRoles(userId) ==
    CASE userId = "uB" -> << "Admin" >>
      [] userId = "uA" -> << "Owner", "user" >>
      [] OTHER -> << "user" >>

\* fetchUserRoles, given what the lookups to come will get ("ok", "notOk" for
\* a response that is not OK, "error" for a fetch that throws) and whether
\* the roleCache holds a fresh entry for the user: the UserRoles or null
\* (ok FALSE), the lookups left, and whether the cache holds an entry then.
fetchUserRoles(userId, lookups, cached) ==
    IF cached
    THEN [ok |-> TRUE, roles |-> ServerRoles(userId), lookups |-> lookups, cached |-> TRUE]
    ELSE IF Head(lookups) = "ok"
    THEN [ok |-> TRUE, roles |-> ServerRoles(userId), lookups |-> Tail(lookups),
          cached |-> TRUE]
    ELSE [ok |-> FALSE, roles |-> <<>>, lookups |-> Tail(lookups), cached |-> FALSE]

\* A test of the roles that compares the names as they are written.
hasRoleAsWritten(userRoles, targetRole) ==
    userRoles.ok /\ \E r \in DOMAIN userRoles.roles : userRoles.roles[r] = targetRole

\* userRoles?.roles.some(r => r.toLowerCase() === targetRole)
hasRole(userRoles, targetRole) ==
    userRoles.ok /\ \E r \in DOMAIN userRoles.roles :
                       toLowerCase(userRoles.roles[r]) = targetRole

\* The loop of isApprover from the k-th pattern on.
RECURSIVE isApproverFrom(_, _, _, _, _, _)
isApproverFrom(userId, username, approverPatterns, k, lookups, cached) ==
    IF k > Len(approverPatterns) THEN FALSE
    ELSE LET normalizedUsername ==
                 IF username = Undefined THEN Undefined ELSE toLowerCase(username)
             trimmed == trim(approverPatterns[k])
             userRoles == fetchUserRoles(userId, lookups, cached)
         IN  IF trimmed = ""
             THEN isApproverFrom(userId, username, approverPatterns, k + 1, lookups, cached)
             ELSE IF StartsWithAt(trimmed)
             THEN \/ normalizedUsername = toLowerCase(StripAt(trimmed))
                  \/ isApproverFrom(userId, username, approverPatterns, k + 1, lookups,
                                    cached)
             ELSE IF StartsWithRole(trimmed)
             THEN \/ hasRole(userRoles, toLowerCase(StripRole(trimmed)))
                  \/ isApproverFrom(userId, username, approverPatterns, k + 1,
                                    userRoles.lookups, userRoles.cached)
             ELSE \/ trimmed = userId
                  \/ normalizedUsername = toLowerCase(trimmed)
                  \/ isApproverFrom(userId, username, approverPatterns, k + 1, lookups,
                                    cached)

\* roles.ts, isApprover with the answers its role lookups get.
isApproverOver(userId, username, approverPatterns, lookups, cached) ==
    isApproverFrom(userId, username, approverPatterns, 1, lookups, cached)

\* An isNotifyChannel that knows rooms by their ids only.
isNotifyChannelById(roomId, roomName, notifyChannels) ==
    \E k \in DOMAIN notifyChannels :
        ~StartsWithAt(notifyChannels[k]) /\ StripRoom(notifyChannels[k]) = roomId

\* roles.ts
isNotifyChannel(roomId, roomName, notifyChannels) ==
    \E k \in DOMAIN notifyChannels :
        LET trimmed == notifyChannels[k]
        IN  IF StartsWithAt(trimmed) THEN FALSE
            ELSE IF StartsWithRoom(trimmed)
            THEN StripRoom(trimmed) = roomId
                    \/ (roomName # "" /\ toLowerCase(StripRoom(trimmed)) = toLowerCase(roomName))
            ELSE IF StartsWithHash(trimmed)
            THEN roomName # "" /\ toLowerCase(roomName) = toLowerCase(StripHash(trimmed))
            ELSE trimmed = roomId
                    \/ (roomName # "" /\ toLowerCase(trimmed) = toLowerCase(roomName))

(***************************************************************************)
(* approval-queue.ts, parseApprovalCommand on texts given piece by piece:  *)
(* a text is a sequence of pieces, each a run of characters that are not   *)
(* white space or commas (a keyword, a name), a blank, a line break or a   *)
(* comma.  Pieces that follow each other without a separator make one      *)
(* word.                                                                   *)
(***************************************************************************)
LineBreak == "\n"
WhiteSpace == { Blank, LineBreak }
Separators == WhiteSpace \cup { "," }

\* String.trim
RECURSIVE trimStart(_)
trimStart(text) ==
    IF text # <<>> /\ Head(text) \in WhiteSpace THEN trimStart(Tail(text)) ELSE text

RECURSIVE trimEnd(_)
trimEnd(text) ==
    IF text # <<>> /\ text[Len(text)] \in WhiteSpace
    THEN trimEnd(SubSeq(text, 1, Len(text) - 1))
    ELSE text

lowerCased(text) == [k \in DOMAIN text |-> toLowerCase(text[k])]

\* input.split(/[\s]+/).filter(Boolean): commas stay in the words.
RECURSIVE parseTargetsOnBlanks(_)
parseTargetsOnBlanks(input) ==
    IF input = <<>> THEN <<>>
    ELSE IF Head(input) \in WhiteSpace THEN parseTargetsOnBlanks(Tail(input))
    ELSE LET rest == parseTargetsOnBlanks(Tail(input))
         IN  IF Len(input) > 1 /\ input[2] \notin WhiteSpace
             THEN << << Head(input) >> \o Head(rest) >> \o Tail(rest)
             ELSE << << Head(input) >> >> \o rest

\* parseTargets: input.split(/[\s,]+/).filter(Boolean); every part is pushed
\* as it is.
RECURSIVE parseTargets(_)
parseTargets(input) ==
    IF input = <<>> THEN <<>>
    ELSE IF Head(input) \in Separators THEN parseTargets(Tail(input))
    ELSE LET rest == parseTargets(Tail(input))
         IN  IF Len(input) > 1 /\ input[2] \notin Separators
             THEN << << Head(input) >> \o Head(rest) >> \o Tail(rest)
             ELSE << << Head(input) >> >> \o rest

\* The group (.+) of trimmed.match(/^(words)\s+(.+)$/i), << >> when there is no
\* match: the keyword, white space, and then at least one character and no
\* line break up to the end.
matchKeyword(trimmed, words) ==
    IF /\ Len(trimmed) >= 3
       /\ toLowerCase(trimmed[1]) \in words
       /\ trimmed[2] \in WhiteSpace
    THEN LET group == trimStart(Tail(trimmed))
         IN  IF \E k \in DOMAIN group : group[k] = LineBreak THEN <<>> ELSE group
    ELSE <<>>

parseApprovalCommandIn(text) ==
    LET trimmed == trimEnd(trimStart(text))
        lower == lowerCased(trimmed)
        approveMatch == matchKeyword(trimmed, { "approve" })
        denyMatch == matchKeyword(trimmed, { "deny" })
        yesMatch == matchKeyword(trimmed, { "yes", "ok", "y" })
        noMatch == matchKeyword(trimmed, { "no", "n", "reject" })
    IN  IF lower \in { << "list", Blank, "pending" >>, << "pending" >>, << "list" >> }
        THEN [action |-> "list", targets |-> <<>>]
        ELSE IF parseTargets(approveMatch) # <<>>
        THEN [action |-> "approve", targets |-> parseTargets(approveMatch)]
        ELSE IF parseTargets(denyMatch) # <<>>
        THEN [action |-> "deny", targets |-> parseTargets(denyMatch)]
        ELSE IF parseTargets(yesMatch) # <<>>
        THEN [action |-> "approve", targets |-> parseTargets(yesMatch)]
        ELSE IF parseTargets(noMatch) # <<>>
        THEN [action |-> "deny", targets |-> parseTargets(noMatch)]
        ELSE [action |-> "none", targets |-> <<>>]

\* The approval command parser on the texts the model uses.
NoCommand == [action |-> "none", targets |-> <<>>]
parseApprovalCommand(text) ==
    CASE text \in { "list", "pending" } -> [action |-> "list", targets |-> <<>>]
      [] text = "approve @eve" -> [action |-> "approve", targets |-> << "@eve" >>]
      [] text = "approve EVE" -> [action |-> "approve", targets |-> << "EVE" >>]
      [] text = "approve uE" -> [action |-> "approve", targets |-> << "uE" >>]
      [] text = "approve q0" -> [action |-> "approve", targets |-> << "q0" >>]
      [] text = "approve @Alice" -> [action |-> "approve", targets |-> << "@Alice" >>]
      [] text = "approve @nobody" -> [action |-> "approve", targets |-> << "@nobody" >>]
      [] text = "approve room:r1" -> [action |-> "approve", targets |-> << "room:r1" >>]
      [] text = "approve r1" -> [action |-> "approve", targets |-> << "r1" >>]
      [] text = "approve @eve uE" -> [action |-> "approve", targets |-> << "@eve", "uE" >>]
      [] text = "approve @eve @nobody room:r1" ->
            [action |-> "approve", targets |-> << "@eve", "@nobody", "room:r1" >>]
      [] text = "yes eve" -> [action |-> "approve", targets |-> << "eve" >>]
      [] text = "deny @eve" -> [action |-> "deny", targets |-> << "@eve" >>]
      [] text = "deny room:r1" -> [action |-> "deny", targets |-> << "room:r1" >>]
      [] text = "deny @nobody, @eve" -> [action |-> "deny", targets |-> << "@nobody", "@eve" >>]
      [] text = "no eve" -> [action |-> "deny", targets |-> << "eve" >>]
      [] OTHER -> NoCommand

\* account.config.rooms: no per-room block, and the block of a room without
\* any of its keys.
NoRooms == << >>
NoRoomConfig ==
    [responseMode |-> "absent", canInteract |-> <<>>, roomApprovers |-> <<>>,
     onMentionUnauthorized |-> "absent"]

\* account.config.ownerApproval, absent or present.
NoOwnerApproval ==
    [present |-> FALSE, enabled |-> FALSE, approvers |-> <<>>, notifyChannels |-> <<>>,
     notifyOnApprove |-> "absent", notifyOnDeny |-> "absent",
     timeout |-> FALSE]
OwnerApprovals ==
    { NoOwnerApproval } \cup
    [ present : { TRUE }, enabled : BOOLEAN,
      approvers : { <<>>, << "@boss" >> }, notifyChannels : { <<>>, << "#ops" >> },
      notifyOnApprove : { "absent" }, notifyOnDeny : { "absent" },
      timeout : { FALSE } ]

FullOwnerApproval ==
    [present |-> TRUE, enabled |-> TRUE, approvers |-> << "@boss" >>,
     notifyChannels |-> << "#ops" >>, notifyOnApprove |-> "absent", notifyOnDeny |-> "absent",
     timeout |-> FALSE]

\* The configurations the monitor is explored under: owner approval for DMs
\* and groups with every ownerApproval block, and the other policies with and
\* without one.
Configs ==
    [ dmPolicy : { "owner-approval" }, groupPolicy : { "owner-approval" },
      ownerApproval : OwnerApprovals, allowFrom : { <<>>, << "@Alice" >> },
      groupAllowFrom : { <<>> }, rooms : { NoRooms } ]
    \cup
    { [ dmPolicy |-> pol[1], groupPolicy |-> pol[2], ownerApproval |-> oa,
        allowFrom |-> << "@Alice" >>, groupAllowFrom |-> <<>>, rooms |-> NoRooms ] :
        pol \in { << "open", "open" >>, << "disabled", "disabled" >>,
                  << "allowlist", "allowlist" >>, << "pairing", "open" >> },
        oa \in { NoOwnerApproval, FullOwnerApproval } }

DefaultConfig ==
    [ dmPolicy |-> "open", groupPolicy |-> "open", ownerApproval |-> NoOwnerApproval,
      allowFrom |-> <<>>, groupAllowFrom |-> <<>>, rooms |-> NoRooms ]

\* Room messages as the server streams them, without their _id.  None has
\* reactions, a file or a thread; the account configures no per-room block;
\* fewer messages and reactions arrive than the cleanup timer of
\* recentMessageIds and processedReactions tolerates.
SystemMessage == [u |-> Eve, rid |-> "r1", msg |-> "joined", t |-> "uj"]
Templates ==
    { [u |-> Eve, rid |-> "dE", msg |-> "hi", t |-> ""],
      [u |-> Eve, rid |-> "r1", msg |-> "hi", t |-> ""],
      [u |-> Alice, rid |-> "dA", msg |-> "hi", t |-> ""],
      [u |-> Boss, rid |-> "rOps", msg |-> "hi", t |-> ""],
      [u |-> Boss, rid |-> "dB", msg |-> "approve @eve", t |-> ""],
      [u |-> Boss, rid |-> "dB", msg |-> "approve room:r1", t |-> ""] }
\* The args of one "changed" frame.
Frames ==
    { << m >> : m \in Templates } \cup
    { << SystemMessage, [u |-> Eve, rid |-> "dE", msg |-> "hi", t |-> ""] >>,
      << [u |-> Eve, rid |-> "dE", msg |-> "hi", t |-> ""],
         [u |-> Boss, rid |-> "dB", msg |-> "approve @eve", t |-> ""] >> }

\* account.userId, the bot itself.
BotUserId == "uBot"
Bot == [_id |-> BotUserId, username |-> "bot"]
\* The room behind a notify channel.
ChannelRoomId(channel) ==
    CASE channel = "#ops" -> "rOps"
      [] channel = "@boss" -> "dB"
      [] OTHER -> channel
\* The ids randomUUID gives the approvals, in the order they are created.
RecordIds == << "q1", "q2", "q3", "q4", "q5", "q6" >>
\* What a caller of the approval queue stands for where a message is expected.
NoMessage == [_id |-> 0, u |-> Bot, rid |-> "", msg |-> "", t |-> "", reactions |-> <<>>]
StoreIds == { "rocketchat", "rocketchat-rooms" }

(***************************************************************************)
(* The monitor's state as one record, as for the session.  A handler is    *)
(* one call of onMessage: its message, where it is (pc), whether it waits  *)
(* there for I/O, and the locals it carries across its awaits.             *)
(***************************************************************************)
Monitor ==
    [ handlers |-> handlers, recentMessageIds |-> recentMessageIds,
      processedReactions |-> processedReactions,
      roomCache |-> roomCache, allowFromStore |-> allowFromStore,
      stores |-> stores, cache |-> cache, queueFile |-> queueFile,
      thisMs |-> thisMs, overdue |-> overdue, minted |-> minted,
      pairingStore |-> pairingStore, clock |-> clock, roomUsers |-> roomUsers,
      forwarded |-> forwarded,
      sentTexts |-> sentTexts ]

CommitMonitor(m) ==
    /\ handlers' = m.handlers
    /\ recentMessageIds' = m.recentMessageIds
    /\ processedReactions' = m.processedReactions
    /\ roomCache' = m.roomCache
    /\ allowFromStore' = m.allowFromStore
    /\ stores' = m.stores
    /\ cache' = m.cache
    /\ queueFile' = m.queueFile
    /\ thisMs' = m.thisMs
    /\ overdue' = m.overdue
    /\ minted' = m.minted
    /\ pairingStore' = m.pairingStore
    /\ clock' = m.clock
    /\ roomUsers' = m.roomUsers
    /\ forwarded' = m.forwarded
    /\ sentTexts' = m.sentTexts

NoAdd == [entry |-> "", storeId |-> "rocketchat", snapshot |-> {}, next |-> "done"]
NoCall == [op |-> "none", type |-> "dm", target |-> "", timeoutMs |-> FALSE]
NoUpsert == [id |-> "", store |-> <<>>, created |-> FALSE, code |-> 0]
\* The call of isApprover a handler stands for: its arguments, what its role
\* lookups get, whether the roleCache holds the user, and what it returned.
NoApproverCall ==
    [userId |-> "", username |-> "", patterns |-> <<>>, lookups |-> <<>>,
     cached |-> FALSE, result |-> FALSE]
\* The call of room-users.ts a handler is in: its params, where it goes on
\* once the store is loaded, the JSON text saveStore writes, and its result.
NoRoomCall ==
    [userId |-> "", username |-> "", then |-> "done", snapshot |-> <<>>, result |-> "none"]
\* The typing indicator of a handler: timer, the timeout of typingTimer is
\* pending; interval, the interval of typingInterval runs; started,
\* typingStarted; callback, where the callback of the timeout is ("none",
\* "setTyping" while it awaits setTyping(true), "returned"); stopped,
\* stopTyping has run; starts, the typing-start calls made; late, those of
\* them made after stopTyping has run.
NoTyping ==
    [timer |-> FALSE, interval |-> FALSE, started |-> FALSE, callback |-> "none",
     stopped |-> FALSE, starts |-> 0, late |-> 0]
\* parse: the text a call of parseApprovalCommand was given and its result.
\* dropped: the return at which handleIncomingMessage has dropped the message
\* without a word, "none" if it has not; wrote: the handler has written one
\* of the files.
\* store: the store object loadStore returned; rec: the index in it of the
\* approval the handler holds; after: where the handler goes on when the file
\* operation it waits for is done; targets, results: the loop of a command.
NewHandler(msg) ==
    [msg |-> msg, pc |-> "me", wait |-> TRUE, isAllowed |-> FALSE,
     add |-> NoAdd, store |-> 0, rec |-> 0, after |-> "done", command |-> NoCommand,
     targets |-> <<>>, results |-> <<>>, gate |-> "none", call |-> NoCall,
     upsert |-> NoUpsert, room |-> NoRoomCall, approver |-> NoApproverCall,
     typing |-> NoTyping, dropped |-> "none", wrote |-> FALSE,
     parse |-> [text |-> <<>>, result |-> NoCommand],
     advert |-> [by |-> "none", action |-> "none", rec |-> 0, found |-> 0]]

\* The handler awaits I/O at pc / goes on at pc without waiting.
goto(m, i, pc) == [m EXCEPT !.handlers[i].pc = pc, !.handlers[i].wait = TRUE]
jump(m, i, pc) == [m EXCEPT !.handlers[i].pc = pc, !.handlers[i].wait = FALSE]

\* handleIncomingMessage returns at one of its silent drops.
drop(m, i, return) == goto([m EXCEPT !.handlers[i].dropped = return], i, "done")

\* The message is posted; `by' is the handler that posts it.
sendMessageRocketChat(m, i, to, text) ==
    [m EXCEPT !.sentTexts = @ (+) SetToBag({ [to |-> to, text |-> text, by |-> i] })]

\* The _id the server gives the notification handler i posts to its k-th
\* notify channel.
NotifyMessageId(i, k) == 100 + 10 * i + k

isGroupRoom(rid) == roomKind(getRoom(rid).t) # "dm"

(***************************************************************************)
(* approval-queue.ts.  `stores' holds the store objects loadStore has made *)
(* (each the array store.pending), `cache' the one the module variable     *)
(* points to (0: null), queueFile the content of the file.  Time is kept   *)
(* as far as the code compares it: thisMs holds the ids of the approvals   *)
(* created in the current millisecond, so that a lastNotifiedAt written    *)
(* now equals createdAt exactly for them; overdue holds the ids whose      *)
(* expiresAt has passed; minted counts the ids randomUUID has given out.   *)
(***************************************************************************)
\* loadStore: the cache if there is one, else the file is read.
loadStore(m, i, next) ==
    IF m.cache # 0
    THEN jump([m EXCEPT !.handlers[i].store = m.cache], i, next)
    ELSE goto([m EXCEPT !.handlers[i].after = next], i, "readQueueFile")

\* loadStore once readFile has returned: a new store object becomes the cache.
storeRead(m, i) ==
    LET made == Len(m.stores) + 1
    IN  jump([m EXCEPT !.stores = Append(@, m.queueFile), !.cache = made,
                       !.handlers[i].store = made],
             i, m.handlers[i].after)

\* saveStore: the store becomes the cache and is written to the file.
saveStore(m, i, next) ==
    goto([m EXCEPT !.cache = m.handlers[i].store, !.handlers[i].after = next],
         i, "writeQueueFile")

\* saveStore once mkdir and writeFile have returned.
storeWritten(m, i) ==
    jump([m EXCEPT !.queueFile = m.stores[m.handlers[i].store],
                   !.handlers[i].wrote = TRUE],
         i, m.handlers[i].after)

\* The index of the first pending approval of the store that matches.
findPendingApproval(store, target, type) ==
    LET normalized == StripAt(toLowerCase(target))
        hits == { k \in DOMAIN store :
                    /\ store[k].status = "pending"
                    /\ store[k].type = type
                    /\ \/ store[k].targetId = target
                       \/ store[k].id = target
                       \/ store[k].targetUsername # ""
                            /\ toLowerCase(store[k].targetUsername) = normalized
                       \/ store[k].type = "room" /\ store[k].targetName # ""
                            /\ toLowerCase(store[k].targetName) = normalized }
    IN  IF hits = {} THEN 0 ELSE CHOOSE k \in hits : \A l \in hits : k <= l

\* `room:${targetId}`
RoomPrefixed(targetId) ==
    CASE targetId = "r1" -> "room:r1"
      [] targetId = "rOps" -> "room:rOps"
      [] OTHER -> targetId

\* `${targetUsername ?? targetId}` for a DM, `room:${targetId}` for a room:
\* what the advertised replies name the approval by.
AdvertisedTarget(approval) ==
    IF approval.type = "dm"
    THEN IF approval.targetUsername # "" THEN approval.targetUsername ELSE approval.targetId
    ELSE RoomPrefixed(approval.targetId)

\* formatApprovalRequest: the reply between the backticks of the line.
formatApprovalRequest(approval) ==
    << "approve", Blank, AdvertisedTarget(approval) >>

\* buildApprovalRequestMessage: the reply between the backticks of the line
\* for the action, `--approve ...` or `--deny ...`.
buildApprovalRequestMessage(params, action) ==
    << "--", action, Blank, AdvertisedTarget(params) >>

\* The approve/deny branch of the command handling for one target: the type
\* from the prefix, the target without "room:" and "@", and the index of the
\* pending approval approveRequest / denyRequest find for it (0: none).
resolveTarget(store, target) ==
    LET type == IF StartsWithRoom(target) THEN "room" ELSE "dm"
        cleanTarget == StripAt(StripRoom(target))
    IN  findPendingApproval(store, cleanTarget, type)

\* The pending approvals of the store for a target and type.
SamePending(store, targetId, type) ==
    { k \in DOMAIN store : /\ store[k].targetId = targetId
                           /\ store[k].type = type
                           /\ store[k].status = "pending" }

\* A createApproval that adds a record whatever the store holds.
createAlways(m, i, params) ==
    LET s == m.handlers[i].store
        id == RecordIds[m.minted + 1]
        record == [id |-> id, type |-> params.type, targetId |-> params.targetId,
                   targetName |-> params.targetName,
                   targetUsername |-> params.targetUsername,
                   replyRoomId |-> params.replyRoomId, status |-> "pending",
                   decidedBy |-> "", decidedAt |-> 0, lastNotifiedAt |-> "createdAt",
                   expires |-> params.timeoutMs, notifyMessageIds |-> {}]
    IN  [m EXCEPT !.stores[s] = Append(@, record),
                  !.thisMs = @ \cup { id },
                  !.minted = @ + 1,
                  !.handlers[i].rec = Len(m.stores[s]) + 1]

\* createApproval once the store is loaded, up to saveStore: a pending
\* approval of the target is touched, else a new one is added.
createApproval(m, i, params) ==
    LET s == m.handlers[i].store
        same == SamePending(m.stores[s], params.targetId, params.type)
    IN  IF same # {}
        THEN LET k == CHOOSE x \in same : \A y \in same : x <= y
             IN  [m EXCEPT !.stores[s][k].lastNotifiedAt =
                               IF m.stores[s][k].id \in m.thisMs THEN "createdAt" ELSE "later",
                           !.handlers[i].rec = k]
        ELSE createAlways(m, i, params)

\* approveRequest / denyRequest once the store is loaded, up to saveStore:
\* rec is 0 when they return null.  decidedAt is the handler that decided.
decideRequest(m, i, target, decidedBy, type, status) ==
    LET s == m.handlers[i].store
        k == findPendingApproval(m.stores[s], target, type)
    IN  IF k = 0 THEN [m EXCEPT !.handlers[i].rec = 0]
        ELSE [m EXCEPT !.stores[s][k].status = status,
                       !.stores[s][k].decidedBy = decidedBy,
                       !.stores[s][k].decidedAt = i,
                       !.handlers[i].rec = k]

approveRequest(m, i, target, decidedBy, type) ==
    decideRequest(m, i, target, decidedBy, type, "approved")
denyRequest(m, i, target, decidedBy, type) ==
    decideRequest(m, i, target, decidedBy, type, "denied")

\* processExpiredApprovals once the store is loaded: the store afterwards.
processExpiredApprovals(m, store) ==
    [k \in DOMAIN store |->
        IF store[k].status = "pending" /\ store[k].expires /\ store[k].id \in m.overdue
        THEN [store[k] EXCEPT !.status = "expired"]
        ELSE store[k]]

\* The approval the handler holds.
held(m, i) == m.stores[m.handlers[i].store][m.handlers[i].rec]

\* One of the four functions called by the name in h.call, once the store is
\* loaded.
queueCall(m, i) ==
    LET c == m.handlers[i].call
        s == m.handlers[i].store
    IN  CASE c.op = "create" ->
                saveStore(createApproval(m, i, [type |-> c.type, targetId |-> c.target,
                                                targetName |-> c.target,
                                                targetUsername |-> "",
                                                replyRoomId |-> c.target,
                                                timeoutMs |-> c.timeoutMs]), i, "end")
          [] c.op \in { "approve", "deny" } ->
                LET m1 == IF c.op = "approve"
                          THEN approveRequest(m, i, c.target, "caller", c.type)
                          ELSE denyRequest(m, i, c.target, "caller", c.type)
                IN  IF m1.handlers[i].rec = 0 THEN goto(m1, i, "done")
                    ELSE saveStore(m1, i, "end")
          [] c.op = "sweep" ->
                LET swept == processExpiredApprovals(m, m.stores[s])
                IN  IF swept = m.stores[s] THEN goto(m, i, "done")
                    ELSE saveStore([m EXCEPT !.stores[s] = swept], i, "end")

(***************************************************************************)
(* handleIncomingMessage, from its end to its start.                       *)
(***************************************************************************)
\* handleIncomingMessage from the timestamp on: the message goes to the agent.
\* startTypingAfterDelay sets the timeout before the dispatch is awaited.
forwardStage(m, i) ==
    LET h == m.handlers[i]
    IN  goto([m EXCEPT !.forwarded = @ \cup { [_id |-> h.msg._id, u |-> h.msg.u,
                                                rid |-> h.msg.rid,
                                                isAllowed |-> h.isAllowed] },
                       !.handlers[i].typing.timer = TRUE],
             i, "dispatch")

\* setTyping(true): a typing-start call is made.
setTypingTrue(m, i) ==
    [m EXCEPT !.handlers[i].typing.starts = @ + 1,
              !.handlers[i].typing.late =
                  IF m.handlers[i].typing.stopped THEN @ + 1 ELSE @]

\* The dispatch has returned or thrown: stopTyping in the finally block
\* clears the timeout and the interval its variables hold, and awaits
\* setTyping(false) if typingStarted.
stopTyping(m, i) ==
    goto([m EXCEPT !.handlers[i].typing.timer = FALSE,
                   !.handlers[i].typing.interval = FALSE,
                   !.handlers[i].typing.stopped = TRUE],
         i, IF m.handlers[i].typing.started THEN "typingStop" ELSE "done")

\* pairing.ts addToAllowFrom: the file is read, and written if the entry is
\* new; the caller goes on at `next'.
addToAllowFrom(m, i, entry, storeId, next) ==
    goto([m EXCEPT !.handlers[i].add =
                       [entry |-> entry, storeId |-> storeId, snapshot |-> {}, next |-> next]],
         i, "allowRead")

addToAllowFromRead(m, i) ==
    LET a == m.handlers[i].add
        file == m.allowFromStore[a.storeId]
    IN  IF toLowerCase(a.entry) \in file THEN jump(m, i, a.next)
        ELSE goto([m EXCEPT !.handlers[i].add.snapshot = file], i, "allowWrite")

addToAllowFromWrite(m, i) ==
    LET a == m.handlers[i].add
    IN  jump([m EXCEPT !.allowFromStore[a.storeId] = a.snapshot \cup { toLowerCase(a.entry) },
                       !.handlers[i].wrote = TRUE],
             i, a.next)

\* The result line of the command's current target is pushed.
resultLine(m, i, outcome) ==
    [m EXCEPT !.handlers[i].results =
                  Append(@, [target |-> Head(m.handlers[i].targets), outcome |-> outcome]),
              !.handlers[i].targets = Tail(@)]

\* A command loop that answers for a target without looking it up.
commandNextUnseen(m, i) ==
    IF m.handlers[i].targets = <<>>
    THEN goto(sendMessageRocketChat(m, i, m.handlers[i].msg.rid, "results"), i, "cmdReply")
    ELSE jump(resultLine(m, i, "none"), i, "cmdNext")

\* The loop over the targets of an approve / deny command: the next target,
\* or the reply with the result lines.
commandNext(m, i) ==
    IF m.handlers[i].targets = <<>>
    THEN goto(sendMessageRocketChat(m, i, m.handlers[i].msg.rid, "results"), i, "cmdReply")
    ELSE loadStore(m, i, "cmdDecide")

\* approveRequest / denyRequest for the current target.
commandDecide(m, i) ==
    LET h == m.handlers[i]
        target == Head(h.targets)
        type == IF StartsWithRoom(target) THEN "room" ELSE "dm"
        cleanTarget == StripAt(StripRoom(target))
        m1 == IF h.command.action = "approve"
              THEN approveRequest(m, i, cleanTarget, h.msg.u._id, type)
              ELSE denyRequest(m, i, cleanTarget, h.msg.u._id, type)
    IN  IF m1.handlers[i].rec = 0 THEN jump(resultLine(m1, i, "none"), i, "cmdNext")
        ELSE saveStore(m1, i, "cmdDecided")

\* What an approve / deny command decides.
decision(m, i) == IF m.handlers[i].command.action = "approve" THEN "approved" ELSE "denied"

\* The requester is told, if the configuration wants it, and the result line
\* is pushed.
commandNotify(m, i) ==
    LET approval == held(m, i)
        isApprove == m.handlers[i].command.action = "approve"
        shouldNotify == IF isApprove THEN config.ownerApproval.notifyOnApprove # "false"
                                     ELSE config.ownerApproval.notifyOnDeny = "true"
    IN  IF shouldNotify
        THEN goto(sendMessageRocketChat(m, i, approval.replyRoomId, decision(m, i)),
                  i, "cmdSent")
        ELSE jump(resultLine(m, i, decision(m, i)), i, "cmdNext")

\* The request has been decided and saved.
commandDecided(m, i) ==
    LET approval == held(m, i)
    IN  IF m.handlers[i].command.action = "approve"
        THEN addToAllowFrom(m, i, approval.targetId,
                            IF approval.type = "room" THEN "rocketchat-rooms" ELSE "rocketchat",
                            "cmdNotify")
        ELSE commandNotify(m, i)

\* A command stage that hands an approver's command on to the agent.
commandStageForwarding(m, i) == forwardStage([m EXCEPT !.handlers[i].gate = "passed"], i)

\* The owner approval command handling.
commandStage(m, i) ==
    LET msg == m.handlers[i].msg
        room == getRoom(msg.rid)
        oc == config.ownerApproval
        m1 == [m EXCEPT !.handlers[i].gate = "passed"]
    IN  IF oc.present /\ oc.enabled
        THEN LET senderIsApprover == isApprover(msg.u._id, msg.u.username, oc.approvers)
                 roomIsNotifyChannel == isNotifyChannel(msg.rid, room.name, oc.notifyChannels)
                 isDmWithBot == ~isGroupRoom(msg.rid)
                 command == parseApprovalCommand(msg.msg)
             IN  IF /\ senderIsApprover
                    /\ roomIsNotifyChannel \/ isDmWithBot
                    /\ command.action # "none"
                 THEN IF command.action = "list"
                      THEN loadStore([m1 EXCEPT !.handlers[i].command = command], i, "cmdList")
                      ELSE jump([m1 EXCEPT !.handlers[i].command = command,
                                           !.handlers[i].targets = command.targets],
                                i, "cmdNext")
                 ELSE forwardStage(m1, i)
        ELSE forwardStage(m1, i)

\* The list command: listPendingApprovals and the reply.
commandList(m, i) ==
    goto(sendMessageRocketChat(m, i, m.handlers[i].msg.rid, "list"), i, "cmdReply")

(***************************************************************************)
(* Approval by reaction.  The module of the approval queue records with an *)
(* approval the ids of the messages that notified the approvers of it, and *)
(* finds the approval of such a message.                                   *)
(***************************************************************************)
\* The notifications posted for an approval are recorded with it and saved.
updateApprovalNotifyMessages(m, approvalId, notifyMessageIds) ==
    LET updated == [k \in DOMAIN m.stores[m.cache] |->
                       IF m.stores[m.cache][k].id = approvalId
                       THEN [m.stores[m.cache][k] EXCEPT !.notifyMessageIds = notifyMessageIds]
                       ELSE m.stores[m.cache][k]]
    IN  [m EXCEPT !.stores[m.cache] = updated, !.queueFile = updated]

\* The index of the approval a notification belongs to, 0 if it is none's.
findApprovalByMessageId(store, notificationId) ==
    LET hits == { k \in DOMAIN store : notificationId \in store[k].notifyMessageIds }
    IN  IF hits = {} THEN 0 ELSE CHOOSE k \in hits : \A l \in hits : k <= l

\* normalizedEmoji.includes(e.replace(/:/g, "")) for the emojis of each list.
IsApproveEmoji(emoji) == emoji \in { ":white_check_mark:", ":+1:" }
IsDenyEmoji(emoji) == emoji \in { ":x:", ":-1:" }

\* checkIsApprover: an @username pattern decides at once; otherwise the user
\* is fetched by name and isApprover decides.
checkIsApprover(username, approverPatterns) ==
    \/ \E k \in DOMAIN approverPatterns :
          /\ StartsWithAt(approverPatterns[k])
          /\ toLowerCase(StripAt(approverPatterns[k])) = toLowerCase(username)
    \/ \E user \in { Eve, Boss, Alice } :
          user.username = username /\ isApprover(user._id, username, approverPatterns)

\* The requester is told of the decision a reaction made.
reactionNotify(m, i) ==
    goto(sendMessageRocketChat(m, i, held(m, i).replyRoomId, decision(m, i)), i, "done")

\* The approval has been decided by a reaction and saved.
reactionDecided(m, i) ==
    LET approval == held(m, i)
    IN  IF m.handlers[i].command.action = "approve"
        THEN addToAllowFrom(m, i, approval.targetId,
                            IF approval.type = "room" THEN "rocketchat-rooms" ELSE "rocketchat",
                            "reactNotify")
        ELSE reactionNotify(m, i)

\* The approvers are notified, the notifications are recorded with the
\* approval, and the requester is told to wait: for a DM only if the approval
\* has not been notified since it was created.
notifyStep(m, i) ==
    LET msg == m.handlers[i].msg
        approval == held(m, i)
        channels == config.ownerApproval.notifyChannels
        told == SetToBag({ [to |-> channels[k], text |-> "approval-request", by |-> i] :
                             k \in DOMAIN channels })
        notifyMessageIds == { NotifyMessageId(i, k) : k \in DOMAIN channels }
        m1 == [m EXCEPT !.sentTexts = @ (+) told]
        m2 == IF notifyMessageIds # {}
              THEN updateApprovalNotifyMessages(m1, approval.id, notifyMessageIds)
              ELSE m1
    IN  IF isGroupRoom(msg.rid) \/ approval.lastNotifiedAt = "createdAt"
        THEN goto(sendMessageRocketChat(m2, i, msg.rid, "waiting"), i, "done")
        ELSE goto(m, i, "done")

\* dmPolicy owner-approval once the store is loaded.  findPendingApproval
\* returns pending approvals only, so that the branch for an approved one is
\* never taken and createApproval is called.
ownerApprovalDmQueue(m, i) ==
    LET msg == m.handlers[i].msg
        existing == findPendingApproval(m.stores[m.handlers[i].store], msg.u._id, "dm")
        m0 == IF existing # 0 THEN [m EXCEPT !.handlers[i].dropped = "pending"] ELSE m
    IN  saveStore(createApproval(m0, i, [type |-> "dm", targetId |-> msg.u._id,
                                        targetName |-> msg.u.username,
                                        targetUsername |-> msg.u.username,
                                        replyRoomId |-> msg.rid,
                                        timeoutMs |-> config.ownerApproval.timeout]),
                  i, "notify")

\* An owner approval of DMs that exempts nobody.
ownerApprovalDmForAll(m, i) ==
    IF ~(config.ownerApproval.present /\ config.ownerApproval.enabled)
    THEN goto(m, i, "done")
    ELSE loadStore(m, i, "dmQueue")

\* dmPolicy owner-approval, for a sender who is not allowed.
ownerApprovalDm(m, i) ==
    LET msg == m.handlers[i].msg
        ownerConfig == config.ownerApproval
    IN  IF ~(ownerConfig.present /\ ownerConfig.enabled) THEN goto(m, i, "done")
        ELSE IF Len(ownerConfig.approvers) > 0
        THEN IF isApprover(msg.u._id, msg.u.username, ownerConfig.approvers)
             THEN commandStage(m, i)
             ELSE loadStore(m, i, "dmQueue")
        ELSE commandStage(m, i)

\* The DM gate once the allowFrom file has been read.
dmGate(m, i) ==
    LET msg == m.handlers[i].msg
        storeAllowFrom == m.allowFromStore["rocketchat"]
        configAllowFrom == { normalizeAllowEntry(config.allowFrom[k]) :
                                k \in DOMAIN config.allowFrom }
        allAllowFrom == storeAllowFrom \cup configAllowFrom
        isAllowed == \E entry \in allAllowFrom :
                        \/ entry = "*"
                        \/ entry = normalizeAllowEntry(msg.u._id)
                        \/ entry = normalizeAllowEntry(msg.u.username)
        m1 == [m EXCEPT !.handlers[i].isAllowed = isAllowed, !.handlers[i].gate = "reached"]
    IN  IF isAllowed THEN commandStage(m1, i)
        ELSE CASE config.dmPolicy = "allowlist" -> drop(m1, i, "dmPolicy=allowlist")
               [] config.dmPolicy = "pairing" -> goto(m1, i, "pairing")
               [] config.dmPolicy = "owner-approval" -> ownerApprovalDm(m1, i)
               [] OTHER -> commandStage(m1, i)

(***************************************************************************)
(* pairing.ts.  pairingStore is store.requests in the file; a request has  *)
(* the requester's id, its code, createdAt and lastSeenAt.  The code       *)
(* generatePairingCode draws is the number of the call that draws it.      *)
(***************************************************************************)
\* requests.sort by createdAt: the sort is stable.
RECURSIVE SortByCreatedAt(_)
SortByCreatedAt(requests) ==
    IF requests = <<>> THEN <<>>
    ELSE LET k == CHOOSE x \in DOMAIN requests :
                    /\ \A y \in DOMAIN requests : requests[x].createdAt <= requests[y].createdAt
                    /\ \A y \in 1..(x - 1) : requests[y].createdAt > requests[x].createdAt
         IN  << requests[k] >> \o
             SortByCreatedAt(SubSeq(requests, 1, k - 1) \o SubSeq(requests, k + 1, Len(requests)))

\* upsertChannelPairingRequest from the store it has read to the store it
\* writes.
upsert(m, i, requests, id) ==
    LET cutoff == m.clock - PairingTtl
        live == SelectSeq(requests, LAMBDA r : r.createdAt > cutoff)
        found == { k \in DOMAIN live : live[k].id = id }
    IN  IF found # {}
        THEN LET k == CHOOSE x \in found : \A y \in found : x <= y
             IN  [id |-> id, created |-> FALSE, code |-> live[k].code,
                  store |-> [live EXCEPT ![k].lastSeenAt = m.clock]]
        ELSE LET kept == IF Len(live) >= MAX_PENDING THEN Tail(SortByCreatedAt(live))
                         ELSE live
             IN  [id |-> id, created |-> TRUE, code |-> i,
                  store |-> Append(kept, [id |-> id, code |-> i, createdAt |-> m.clock,
                                          lastSeenAt |-> m.clock])]

\* readPairingStore has returned: the store is worked on and its write
\* begins; the caller goes on at `next'.
upsertChannelPairingRequest(m, i, id, next) ==
    goto([m EXCEPT !.handlers[i].upsert = upsert(m, i, m.pairingStore, id),
                   !.handlers[i].after = next], i, "pairWrite")

\* writePairingStore has returned, and with it upsertChannelPairingRequest.
pairingWritten(m, i) ==
    jump([m EXCEPT !.pairingStore = m.handlers[i].upsert.store,
                   !.handlers[i].wrote = TRUE],
         i, m.handlers[i].after)

\* dmPolicy pairing once the store of the requests has been read.
pairingStep(m, i) == upsertChannelPairingRequest(m, i, m.handlers[i].msg.u._id, "pairReply")

\* dmPolicy pairing once the request is written: the reply with the code, if
\* the request is new.
pairingReply(m, i) ==
    IF m.handlers[i].upsert.created
    THEN goto(sendMessageRocketChat(m, i, m.handlers[i].msg.rid, "pairing"), i, "end")
    ELSE goto(m, i, "done")

(***************************************************************************)
(* room-users.ts.  roomUsers.objs holds the store objects loadStore has    *)
(* made, each the array rooms[roomId].approved of the one room that has a  *)
(* block in the configuration; roomUsers.cache the object the module's     *)
(* cache points to (0: null); roomUsers.file the array in the file.  An    *)
(* entry is [userId, username], with "" for no username.                   *)
(***************************************************************************)
\* loadStore of room-users.ts: the cache if there is one, else the file is
\* read.
loadRoomUsers(m, i, next) ==
    IF m.roomUsers.cache # 0
    THEN jump([m EXCEPT !.handlers[i].store = m.roomUsers.cache], i, next)
    ELSE goto([m EXCEPT !.handlers[i].room.then = next], i, "readRoomUsers")

\* loadStore once readFile has returned: a new store object becomes the cache.
roomUsersRead(m, i) ==
    LET made == Len(m.roomUsers.objs) + 1
    IN  jump([m EXCEPT !.roomUsers.objs = Append(@, m.roomUsers.file),
                       !.roomUsers.cache = made,
                       !.handlers[i].store = made],
             i, m.handlers[i].room.then)

\* saveStore of room-users.ts: the store becomes the cache, its JSON text is
\* made, and the text is written.
saveRoomUsers(m, i, result) ==
    goto([m EXCEPT !.roomUsers.cache = m.handlers[i].store,
                   !.handlers[i].room.snapshot = m.roomUsers.objs[m.handlers[i].store],
                   !.handlers[i].room.result = result],
         i, "writeRoomUsers")

\* saveStore once mkdir and writeFile have returned: the call returns.
roomUsersWritten(m, i) ==
    jump([m EXCEPT !.roomUsers.file = m.handlers[i].room.snapshot,
                   !.handlers[i].wrote = TRUE],
         i, m.handlers[i].after)

\* The entry is the user's: by user id, or by username whatever the case.
matchesRoomUser(entry, userId, username) ==
    \/ userId # "" /\ entry.userId = userId
    \/ username # "" /\ entry.username # ""
                     /\ toLowerCase(entry.username) = toLowerCase(username)

\* isRoomUserApproved on the list getRoomApprovedUsers has returned.
isRoomUserApproved(approved, userId, username) ==
    \E k \in DOMAIN approved : matchesRoomUser(approved[k], userId, username)

\* addRoomUser, removeRoomUser: the store is loaded; the caller goes on at
\* `next' when the call has returned.
addRoomUser(m, i, userId, username, next) ==
    loadRoomUsers([m EXCEPT !.handlers[i].room.userId = userId,
                            !.handlers[i].room.username = username,
                            !.handlers[i].after = next],
                  i, "roomAdd")

removeRoomUser(m, i, userId, username, next) ==
    loadRoomUsers([m EXCEPT !.handlers[i].room.userId = userId,
                            !.handlers[i].room.username = username,
                            !.handlers[i].after = next],
                  i, "roomRemove")

\* addRoomUser with the store: an entry of the user is reported, else the
\* user's entry is pushed and the store saved.
roomUserAdd(m, i) ==
    LET h == m.handlers[i]
        approved == m.roomUsers.objs[h.store]
    IN  IF isRoomUserApproved(approved, h.room.userId, h.room.username)
        THEN jump([m EXCEPT !.handlers[i].room.result = "existing"], i, h.after)
        ELSE saveRoomUsers([m EXCEPT !.roomUsers.objs[h.store] =
                                        Append(@, [userId |-> h.room.userId,
                                                   username |-> h.room.username])],
                           i, "added")

\* removeRoomUser with the store: the first entry of the user is spliced out
\* and the store saved.
roomUserRemove(m, i) ==
    LET h == m.handlers[i]
        approved == m.roomUsers.objs[h.store]
        hits == { k \in DOMAIN approved :
                    matchesRoomUser(approved[k], h.room.userId, h.room.username) }
    IN  IF hits = {}
        THEN jump([m EXCEPT !.handlers[i].room.result = "absent"], i, h.after)
        ELSE LET index == CHOOSE k \in hits : \A l \in hits : k <= l
                 rest == [k \in 1..(Len(approved) - 1) |->
                            IF k < index THEN approved[k] ELSE approved[k + 1]]
             IN  saveRoomUsers([m EXCEPT !.roomUsers.objs[h.store] = rest], i, "removed")

\* A caller's isRoomUserApproved with the store.
roomUserCheck(m, i) ==
    LET h == m.handlers[i]
        found == isRoomUserApproved(m.roomUsers.objs[h.store], h.room.userId, h.room.username)
    IN  jump([m EXCEPT !.handlers[i].room.result = IF found THEN "approved" ELSE "not approved"],
             i, h.after)

(***************************************************************************)
(* The per-room user access control of handleIncomingMessage.              *)
(***************************************************************************)
\* account.config.rooms?.[roomId] ?? {}
RoomConfig(rid) == IF rid \in DOMAIN config.rooms THEN config.rooms[rid] ELSE NoRoomConfig

\* msg.mentions, which the server derives from the text.
mentions(text) == IF text = "@bot hi" THEN { BotUserId } ELSE {}

\* parseRoomCommand on the texts the model uses.
parseRoomCommand(text) ==
    CASE text = "room-list" -> [action |-> "room-list", targets |-> <<>>]
      [] text = "room-approve @eve" -> [action |-> "room-approve", targets |-> << "@eve" >>]
      [] text = "room-approve eve alice" ->
            [action |-> "room-approve", targets |-> << "@eve", "@alice" >>]
      [] text = "room-approve @nobody" ->
            [action |-> "room-approve", targets |-> << "@nobody" >>]
      [] text = "room-deny @eve" -> [action |-> "room-deny", targets |-> << "@eve" >>]
      [] text = "room remove eve" -> [action |-> "room-deny", targets |-> << "@eve" >>]
      [] OTHER -> NoCommand

\* What users.info answers for a username.
NoUser == [_id |-> "", username |-> ""]
fetchUserByUsername(username) ==
    CASE username = "eve" -> Eve
      [] username = "alice" -> Alice
      [] username = "boss" -> Boss
      [] OTHER -> NoUser

\* The block is entered for a room with canInteract or roomApprovers: the
\* store of the room's users is loaded for isRoomUserApproved.
roomAcl(m, i) ==
    LET roomConfig == RoomConfig(m.handlers[i].msg.rid)
        hasRoomAccessControl ==
            Len(roomConfig.canInteract) > 0 \/ Len(roomConfig.roomApprovers) > 0
    IN  IF hasRoomAccessControl THEN loadRoomUsers(m, i, "aclCheck")
        ELSE commandStage(m, i)

\* The block once the store is loaded, for a responseMode that applies to
\* every sender whatever the configuration says.
roomAclChecked(m, i, responseMode) ==
    LET msg == m.handlers[i].msg
        roomConfig == RoomConfig(msg.rid)
        isRoomApprover == isApprover(msg.u._id, msg.u.username, roomConfig.roomApprovers)
        isInCanInteract == isApprover(msg.u._id, msg.u.username, roomConfig.canInteract)
        isInRoomUsers == isRoomUserApproved(m.roomUsers.objs[m.handlers[i].store],
                                            msg.u._id, msg.u.username)
        isGlobalApprover == isApprover(msg.u._id, msg.u.username,
                                       config.ownerApproval.approvers)
        canUserInteract ==
            isRoomApprover \/ isInCanInteract \/ isInRoomUsers \/ isGlobalApprover
        roomCommand == parseRoomCommand(msg.msg)
        wasMentioned == BotUserId \in mentions(msg.msg)
    IN  IF (isRoomApprover \/ isGlobalApprover) /\ roomCommand.action # "none"
        THEN IF roomCommand.action = "room-list"
             THEN goto(sendMessageRocketChat(m, i, msg.rid, "room users"), i, "end")
             ELSE jump([m EXCEPT !.handlers[i].command = roomCommand,
                                 !.handlers[i].targets = roomCommand.targets],
                       i, "roomNext")
        ELSE IF ~canUserInteract
        THEN IF wasMentioned /\ roomConfig.onMentionUnauthorized = "reply"
             THEN goto(sendMessageRocketChat(m, i, msg.rid, "not authorized"), i, "end")
             ELSE IF roomConfig.onMentionUnauthorized = "reply" THEN goto(m, i, "done")
             ELSE drop(m, i, "onMentionUnauthorized=ignore")
        ELSE IF responseMode = "mention-only" /\ ~wasMentioned
        THEN goto(m, i, "done")
        ELSE commandStage(m, i)

roomAclAlways(m, i) == roomAclChecked(m, i, "always")

roomAclCheck(m, i) ==
    roomAclChecked(m, i, RoomConfig(m.handlers[i].msg.rid).responseMode)

\* The loop of room-approve and room-deny over the targets, and the reply
\* with the result lines.
roomCommandNext(m, i) ==
    LET h == m.handlers[i]
    IN  IF h.targets = <<>>
        THEN goto(sendMessageRocketChat(m, i, h.msg.rid, "room results"), i, "end")
        ELSE IF h.command.action = "room-approve" THEN goto(m, i, "roomFetch")
        ELSE removeRoomUser(m, i, "", StripAt(Head(h.targets)), "roomResult")

\* room-approve once fetchUserByUsername has answered.
roomCommandFetched(m, i) ==
    LET h == m.handlers[i]
        userInfo == fetchUserByUsername(StripAt(Head(h.targets)))
    IN  IF userInfo = NoUser
        THEN jump([m EXCEPT !.handlers[i].room.result = "not found"], i, "roomResult")
        ELSE addRoomUser(m, i, userInfo._id, userInfo.username, "roomResult")

\* The result line of the target is pushed.
roomCommandResult(m, i) ==
    jump([m EXCEPT !.handlers[i].results = Append(@, m.handlers[i].room.result),
                   !.handlers[i].targets = Tail(@)],
         i, "roomNext")

\* groupPolicy owner-approval once the store is loaded.
ownerApprovalGroupQueue(m, i) ==
    LET msg == m.handlers[i].msg
        room == getRoom(msg.rid)
    IN  IF findPendingApproval(m.stores[m.handlers[i].store], msg.rid, "room") # 0
        THEN drop(m, i, "pending")
        ELSE saveStore(createApproval(m, i, [type |-> "room", targetId |-> msg.rid,
                                             targetName |-> room.name, targetUsername |-> "",
                                             replyRoomId |-> msg.rid,
                                        timeoutMs |-> config.ownerApproval.timeout]),
                       i, "notify")

\* groupPolicy owner-approval, for a room that is not allowed.
ownerApprovalGroup(m, i) ==
    LET msg == m.handlers[i].msg
        ownerConfig == config.ownerApproval
    IN  IF ~(ownerConfig.present /\ ownerConfig.enabled) THEN goto(m, i, "done")
        ELSE IF Len(ownerConfig.approvers) > 0
        THEN IF isApprover(msg.u._id, msg.u.username, ownerConfig.approvers)
             THEN roomAcl(m, i)
             ELSE loadStore(m, i, "grpQueue")
        ELSE roomAcl(m, i)

\* The group gate once the allowFrom file of the rooms has been read.
groupGate(m, i) ==
    LET msg == m.handlers[i].msg
        room == getRoom(msg.rid)
        roomName == IF room.name # "" THEN room.name ELSE msg.rid
        storeAllowFrom == m.allowFromStore["rocketchat-rooms"]
        configAllowFrom == { normalizeRoomEntry(config.groupAllowFrom[k]) :
                                k \in DOMAIN config.groupAllowFrom }
        allAllowFrom == storeAllowFrom \cup configAllowFrom
        isNotifyChannelRoom ==
            isNotifyChannel(msg.rid, roomName, config.ownerApproval.notifyChannels)
        isAllowed == \/ isNotifyChannelRoom
                     \/ \E entry \in allAllowFrom :
                            \/ entry = "*"
                            \/ entry = normalizeRoomEntry(msg.rid)
                            \/ entry = normalizeRoomEntry(roomName)
        m1 == [m EXCEPT !.handlers[i].isAllowed = isAllowed, !.handlers[i].gate = "reached"]
    IN  IF isAllowed THEN roomAcl(m1, i)
        ELSE CASE config.groupPolicy = "allowlist" -> drop(m1, i, "groupPolicy=allowlist")
               [] config.groupPolicy = "owner-approval" -> ownerApprovalGroup(m1, i)
               [] OTHER -> roomAcl(m1, i)

\* handleIncomingMessage once getRoom has returned the room.
afterGetRoom(m, i) ==
    LET msg == m.handlers[i].msg
    IN  IF ~isGroupRoom(msg.rid)
        THEN CASE config.dmPolicy = "disabled" -> drop(m, i, "dmPolicy=disabled")
               [] config.dmPolicy = "open" -> commandStage(m, i)
               [] OTHER -> goto(m, i, "dmAllow")
        ELSE CASE config.groupPolicy = "disabled" -> drop(m, i, "groupPolicy=disabled")
               [] config.groupPolicy = "open" -> roomAcl(m, i)
               [] OTHER -> goto(m, i, "grpAllow")

\* The REST request of getRoom has answered: the room is cached.
roomFetched(m, i) ==
    afterGetRoom([m EXCEPT !.roomCache = @ \cup { m.handlers[i].msg.rid }], i)

\* After the reaction block, when it has not returned: isDuplicate is called
\* a second time, and a message whose id it does not find goes on as one
\* without reactions does.
afterReactions(m, i) ==
    LET msg == m.handlers[i].msg
        m1 == [m EXCEPT !.recentMessageIds = @ \cup { msg._id }]
    IN  IF msg._id \in m.recentMessageIds THEN goto(m, i, "done")
        ELSE IF msg.t # "" THEN goto(m1, i, "done")
        ELSE IF msg.rid \in m1.roomCache THEN afterGetRoom(m1, i)
        ELSE goto(m1, i, "room")

\* The reaction block once findApprovalByMessageId has returned: the first
\* approve or deny reaction of an approver that has not been processed
\* decides a pending approval.  msg.reactions is the list of the pairs of an
\* emoji and a user who reacted with it, in the order of the loops.
reactionBlock(m, i) ==
    LET msg == m.handlers[i].msg
        store == m.stores[m.handlers[i].store]
        k == findApprovalByMessageId(store, msg._id)
        approvers == config.ownerApproval.approvers
        Key(j) == [id |-> msg._id, emoji |-> msg.reactions[j].emoji,
                   username |-> msg.reactions[j].username]
        eligible == { j \in DOMAIN msg.reactions :
                        /\ IsApproveEmoji(msg.reactions[j].emoji)
                              \/ IsDenyEmoji(msg.reactions[j].emoji)
                        /\ checkIsApprover(msg.reactions[j].username, approvers)
                        /\ Key(j) \notin m.processedReactions }
    IN  IF k = 0 \/ eligible = {} THEN afterReactions(m, i)
        ELSE IF store[k].status # "pending" THEN afterReactions(m, i)
        ELSE LET j == CHOOSE x \in eligible : \A y \in eligible : x <= y
                 approve == IsApproveEmoji(msg.reactions[j].emoji)
                 target == IF store[k].type = "dm" /\ store[k].targetUsername # ""
                           THEN store[k].targetUsername ELSE store[k].targetId
                 m1 == [m EXCEPT !.processedReactions = @ \cup { Key(j) },
                                 !.handlers[i].command =
                                     [action |-> IF approve THEN "approve" ELSE "deny",
                                      targets |-> <<>>]]
                 m2 == IF approve
                       THEN approveRequest(m1, i, target, msg.reactions[j].username, store[k].type)
                       ELSE denyRequest(m1, i, target, msg.reactions[j].username, store[k].type)
             IN  IF m2.handlers[i].rec = 0 THEN goto(m2, i, "done")
                 ELSE saveStore(m2, i, "reactDecided")

\* handleIncomingMessage up to its first await on I/O: a message with
\* reactions goes to the reaction block, and a room that is cached costs no
\* request.
handleIncomingMessage(m, i) ==
    LET msg == m.handlers[i].msg
        hasReactions == msg.reactions # <<>>
        m1 == [m EXCEPT !.recentMessageIds = @ \cup { msg._id }]
    IN  IF msg._id \in m.recentMessageIds /\ ~hasReactions THEN goto(m, i, "done")
        ELSE IF msg.u._id = BotUserId THEN goto(m1, i, "done")
        ELSE IF hasReactions THEN loadStore(m1, i, "reaction")
        ELSE IF msg.t # "" THEN goto(m1, i, "done")
        ELSE IF msg.rid \in m1.roomCache THEN afterGetRoom(m1, i)
        ELSE goto(m1, i, "room")

\* The code at the position of handler i, up to the next position.
step(m, i) ==
    CASE m.handlers[i].pc = "me" -> handleIncomingMessage(m, i)
      [] m.handlers[i].pc = "readQueueFile" -> storeRead(m, i)
      [] m.handlers[i].pc = "writeQueueFile" -> storeWritten(m, i)
      [] m.handlers[i].pc = "queueCall" -> queueCall(m, i)
      [] m.handlers[i].pc = "reaction" -> reactionBlock(m, i)
      [] m.handlers[i].pc = "reactDecided" -> reactionDecided(m, i)
      [] m.handlers[i].pc = "reactNotify" -> reactionNotify(m, i)
      [] m.handlers[i].pc = "room" -> roomFetched(m, i)
      [] m.handlers[i].pc = "dmAllow" -> dmGate(m, i)
      [] m.handlers[i].pc = "dmQueue" -> ownerApprovalDmQueue(m, i)
      [] m.handlers[i].pc = "grpAllow" -> groupGate(m, i)
      [] m.handlers[i].pc = "grpQueue" -> ownerApprovalGroupQueue(m, i)
      [] m.handlers[i].pc = "pairing" -> pairingStep(m, i)
      [] m.handlers[i].pc = "upsertRead" ->
            upsertChannelPairingRequest(m, i, m.handlers[i].call.target, "return")
      [] m.handlers[i].pc = "pairWrite" -> pairingWritten(m, i)
      [] m.handlers[i].pc = "pairReply" -> pairingReply(m, i)
      [] m.handlers[i].pc = "readRoomUsers" -> roomUsersRead(m, i)
      [] m.handlers[i].pc = "writeRoomUsers" -> roomUsersWritten(m, i)
      [] m.handlers[i].pc = "roomAdd" -> roomUserAdd(m, i)
      [] m.handlers[i].pc = "roomRemove" -> roomUserRemove(m, i)
      [] m.handlers[i].pc = "roomCheck" -> roomUserCheck(m, i)
      [] m.handlers[i].pc = "aclCheck" -> roomAclCheck(m, i)
      [] m.handlers[i].pc = "roomNext" -> roomCommandNext(m, i)
      [] m.handlers[i].pc = "roomFetch" -> roomCommandFetched(m, i)
      [] m.handlers[i].pc = "roomResult" -> roomCommandResult(m, i)
      [] m.handlers[i].pc = "notify" -> notifyStep(m, i)
      [] m.handlers[i].pc = "cmdList" -> commandList(m, i)
      [] m.handlers[i].pc = "cmdNext" -> commandNext(m, i)
      [] m.handlers[i].pc = "cmdDecide" -> commandDecide(m, i)
      [] m.handlers[i].pc = "cmdDecided" -> commandDecided(m, i)
      [] m.handlers[i].pc = "allowRead" -> addToAllowFromRead(m, i)
      [] m.handlers[i].pc = "allowWrite" -> addToAllowFromWrite(m, i)
      [] m.handlers[i].pc = "cmdNotify" -> commandNotify(m, i)
      [] m.handlers[i].pc = "cmdSent" -> jump(resultLine(m, i, decision(m, i)), i, "cmdNext")
      [] m.handlers[i].pc = "dispatch" -> stopTyping(m, i)
      [] m.handlers[i].pc \in { "cmdReply", "typingStop", "end", "return" } -> goto(m, i, "done")

\* The handler runs on until it awaits I/O or has returned.
RECURSIVE run(_, _)
run(m, i) == IF m.handlers[i].wait THEN m ELSE run(step(m, i), i)

\* The I/O handler i awaits completes and the handler runs to its next await.
resume(m, i) == run(step(m, i), i)

\* handleIncomingMessage has been called for the handler and has not returned.
InProgress(h) == h.pc \notin { "me", "done" }

(***************************************************************************)
(* Events of the monitor.                                                  *)
(***************************************************************************)
\* A "changed" frame of stream-room-messages: handleMessage calls onMessage
\* for every message that is not a system message and does not await it, so
\* each call runs to its first await, the request for the bot's own user.
started(hs, messages, firstId) ==
    LET wanted == SelectSeq(messages, LAMBDA x : x.t = "")
    IN  hs \o [k \in 1..Len(wanted) |->
                 NewHandler([_id |-> firstId + k - 1, u |-> wanted[k].u, rid |-> wanted[k].rid,
                             msg |-> wanted[k].msg, t |-> wanted[k].t, reactions |-> <<>>])]

Live == isConnected /\ ws # NoSock /\ sock[ws] = "OPEN"

OnChanged(messages) ==
    LET hs == started(handlers, messages, arrived + 1)
    IN  /\ Live
        /\ Len(hs) <= lim.inbound
        /\ CommitMonitor([Monitor EXCEPT !.handlers = hs])
        /\ arrived' = arrived + (Len(hs) - Len(handlers))
        /\ UNCHANGED << sessionVars, config >>

\* The server streams a message again under its _id (it was edited).
OnChangedAgain(i) ==
    /\ Live
    /\ Len(handlers) < lim.inbound
    /\ CommitMonitor([Monitor EXCEPT !.handlers = Append(@, NewHandler(handlers[i].msg))])
    /\ UNCHANGED << sessionVars, config, arrived >>

\* The notifications the bot has posted: the server's message for each.
Posted ==
    LET channels == config.ownerApproval.notifyChannels
    IN  { [_id |-> NotifyMessageId(x[1].by, x[2]), u |-> Bot, rid |-> ChannelRoomId(x[1].to),
           msg |-> x[1].text, t |-> ""] :
            x \in { y \in BagToSet(sentTexts) \X DOMAIN channels :
                      y[1].text = "approval-request" /\ channels[y[2]] = y[1].to } }

\* A user reacts to a message, and the server streams the message with its
\* reactions: a notification of the bot, or a message that has arrived.
OnReacted(message, reactions) ==
    /\ Live
    /\ Len(handlers) < lim.inbound
    /\ CommitMonitor([Monitor EXCEPT !.handlers =
           Append(@, NewHandler([_id |-> message._id, u |-> message.u, rid |-> message.rid,
                                 msg |-> message.msg, t |-> message.t,
                                 reactions |-> reactions]))])
    /\ UNCHANGED << sessionVars, config, arrived >>

Resume(i) ==
    /\ handlers[i].pc # "done"
    /\ CommitMonitor(resume(Monitor, i))
    /\ UNCHANGED << sessionVars, config, arrived >>

\* The clock reaches the next millisecond.
Tick ==
    /\ thisMs # {}
    /\ CommitMonitor([Monitor EXCEPT !.thisMs = {}])
    /\ UNCHANGED << sessionVars, config, arrived >>

\* The clock passes the expiresAt of an approval.
Elapse(id) ==
    /\ id \notin overdue
    /\ \E s \in DOMAIN stores : \E k \in DOMAIN stores[s] :
          stores[s][k].id = id /\ stores[s][k].expires
    /\ CommitMonitor([Monitor EXCEPT !.overdue = @ \cup { id }, !.thisMs = {}])
    /\ UNCHANGED << sessionVars, config, arrived >>

\* A caller calls one of the functions of the approval queue: it runs to its
\* first await on I/O.
Call(c) ==
    LET i == Len(handlers) + 1
        hs == Append(handlers, [NewHandler(NoMessage) EXCEPT !.call = c])
    IN  /\ i <= lim.inbound
        /\ CommitMonitor(run(loadStore([Monitor EXCEPT !.handlers = hs], i, "queueCall"), i))
        /\ UNCHANGED << sessionVars, config, arrived >>

\* A caller calls upsertChannelPairingRequest for a requester: the call
\* awaits readPairingStore.
Upsert(id) ==
    LET i == Len(handlers) + 1
        c == [NoCall EXCEPT !.op = "upsert", !.target = id]
        hs == Append(handlers, [NewHandler(NoMessage) EXCEPT !.call = c])
    IN  /\ i <= lim.inbound
        /\ CommitMonitor(goto([Monitor EXCEPT !.handlers = hs], i, "upsertRead"))
        /\ UNCHANGED << sessionVars, config, arrived >>

\* A caller calls addToAllowFrom for a DM sender (the pairing approval does):
\* the call awaits readAllowFromStore.
AddToAllowFrom(entry) ==
    LET i == Len(handlers) + 1
        c == [NoCall EXCEPT !.op = "allow", !.target = entry]
        hs == Append(handlers, [NewHandler(NoMessage) EXCEPT !.call = c])
    IN  /\ i <= lim.inbound
        /\ CommitMonitor(addToAllowFrom([Monitor EXCEPT !.handlers = hs], i, entry,
                                        "rocketchat", "return"))
        /\ UNCHANGED << sessionVars, config, arrived >>

\* A caller calls addRoomUser, removeRoomUser or isRoomUserApproved for the
\* room and a user: the call runs to its first await on I/O.
RoomUserCall(op, user) ==
    LET i == Len(handlers) + 1
        c == [NoCall EXCEPT !.op = op, !.target = user._id]
        hs == Append(handlers, [NewHandler(NoMessage) EXCEPT !.call = c])
        m == [Monitor EXCEPT !.handlers = hs]
    IN  /\ i <= lim.inbound
        /\ CommitMonitor(run(
              CASE op = "addRoomUser" -> addRoomUser(m, i, user._id, user.username, "return")
                [] op = "removeRoomUser" -> removeRoomUser(m, i, "", user.username, "return")
                [] op = "isRoomUserApproved" ->
                      loadRoomUsers([m EXCEPT !.handlers[i].room.userId = user._id,
                                              !.handlers[i].room.username = user.username,
                                              !.handlers[i].after = "return"],
                                    i, "roomCheck"), i))
        /\ UNCHANGED << sessionVars, config, arrived >>

\* A caller calls isApprover for a principal and a list of patterns; the role
\* lookups of the call get `lookups', in this order, and the roleCache holds
\* the roles of the principal or does not.  The call returns.
ApproverCall(user, patterns, lookups, cached) ==
    LET i == Len(handlers) + 1
        c == [NoCall EXCEPT !.op = "isApprover", !.target = user._id]
        a == [userId |-> user._id, username |-> user.username, patterns |-> patterns,
              lookups |-> lookups, cached |-> cached,
              result |-> isApproverOver(user._id, user.username, patterns, lookups, cached)]
        hs == Append(handlers, [NewHandler(NoMessage) EXCEPT !.call = c, !.approver = a])
    IN  /\ i <= lim.inbound
        /\ CommitMonitor(goto([Monitor EXCEPT !.handlers = hs], i, "done"))
        /\ UNCHANGED << sessionVars, config, arrived >>

\* A caller calls parseApprovalCommand for a text; the call returns.
ParseCall(text) ==
    LET i == Len(handlers) + 1
        c == [NoCall EXCEPT !.op = "parseApprovalCommand"]
        hs == Append(handlers, [NewHandler(NoMessage) EXCEPT
                 !.call = c,
                 !.parse = [text |-> text, result |-> parseApprovalCommandIn(text)]])
    IN  /\ i <= lim.inbound
        /\ CommitMonitor(goto([Monitor EXCEPT !.handlers = hs], i, "done"))
        /\ UNCHANGED << sessionVars, config, arrived >>

\* An approver sends, as it stands, the reply that the notification
\* ("message") or the pending list ("list") shows for the k-th approval of
\* the store: the text, what parseApprovalCommand makes of it, and the
\* approval its first target resolves to.
ReplyCall(k, by, action) ==
    LET i == Len(handlers) + 1
        store == stores[cache]
        text == IF by = "list" THEN formatApprovalRequest(store[k])
                ELSE buildApprovalRequestMessage(store[k], action)
        result == parseApprovalCommandIn(text)
        found == IF result.targets = <<>> \/ Len(Head(result.targets)) # 1 THEN 0
                 ELSE resolveTarget(store, Head(result.targets)[1])
        c == [NoCall EXCEPT !.op = "reply", !.type = store[k].type, !.target = store[k].id]
        hs == Append(handlers, [NewHandler(NoMessage) EXCEPT
                 !.call = c,
                 !.parse = [text |-> text, result |-> result],
                 !.advert = [by |-> by, action |-> action, rec |-> k, found |-> found]])
    IN  /\ i <= lim.inbound
        /\ cache # 0
        /\ k \in DOMAIN store
        /\ store[k].status = "pending"
        /\ by = "list" => action = "approve"
        /\ CommitMonitor(goto([Monitor EXCEPT !.handlers = hs], i, "done"))
        /\ UNCHANGED << sessionVars, config, arrived >>

\* The timeout of typingTimer fires after typingDelayMs: its callback sets
\* typingStarted and awaits setTyping(true).
TypingDelayElapsed(i) ==
    /\ handlers[i].typing.timer
    /\ CommitMonitor(setTypingTrue([Monitor EXCEPT
          !.handlers[i].typing.timer = FALSE,
          !.handlers[i].typing.started = TRUE,
          !.handlers[i].typing.callback = "setTyping"], i))
    /\ UNCHANGED << sessionVars, config, arrived >>

\* The call of setTyping(true) the callback awaits returns (or fails, which
\* setTyping catches): the callback sets the interval.
TypingCallReturned(i) ==
    /\ handlers[i].typing.callback = "setTyping"
    /\ CommitMonitor([Monitor EXCEPT !.handlers[i].typing.callback = "returned",
                                     !.handlers[i].typing.interval = TRUE])
    /\ UNCHANGED << sessionVars, config, arrived >>

\* The interval of typingInterval fires after typingPingMs.
TypingPing(i) ==
    /\ handlers[i].typing.interval
    /\ handlers[i].typing.starts < MaxTypingStarts
    /\ CommitMonitor(setTypingTrue(Monitor, i))
    /\ UNCHANGED << sessionVars, config, arrived >>

\* The interval of startCleanupTimer fires: a set that has grown beyond its
\* size is cleared.
Cleanup ==
    /\ \/ Cardinality(recentMessageIds) > RecentIdsLimit
       \/ Cardinality(processedReactions) > ReactionKeysLimit
    /\ CommitMonitor([Monitor EXCEPT
          !.recentMessageIds = IF Cardinality(@) > RecentIdsLimit THEN {} ELSE @,
          !.processedReactions = IF Cardinality(@) > ReactionKeysLimit THEN {} ELSE @])
    /\ UNCHANGED << sessionVars, config, arrived >>

\* The writeFile (or the mkdir before it) of the saveStore that the call of
\* handler i awaits fails: saveStore throws, and so does the function that
\* called it, to its caller.
WriteFails(i) ==
    /\ handlers[i].call.op # "none"
    /\ handlers[i].pc \in { "writeQueueFile", "writeRoomUsers" }
    /\ CommitMonitor(goto([Monitor EXCEPT !.handlers[i].results = << "threw" >>], i, "done"))
    /\ UNCHANGED << sessionVars, config, arrived >>

\* Time passes: the clock shows the next unit.
Advance ==
    /\ clock < MaxClock
    /\ CommitMonitor([Monitor EXCEPT !.clock = @ + 1])
    /\ UNCHANGED << sessionVars, config, arrived >>

\* The monitor before any message has arrived, under configuration c, with
\* the file of the approval queue holding `pending'; the module of the queue,
\* which the accounts of the process share, has loaded it or has not.
MonitorStartedOver(c, pending, loaded, requests, approved) ==
    /\ config = c
    /\ arrived = 0
    /\ handlers = <<>>
    /\ recentMessageIds = {}
    /\ processedReactions = {}
    /\ roomCache = {}
    /\ allowFromStore = [id \in StoreIds |-> {}]
    /\ stores = IF loaded THEN << pending >> ELSE <<>>
    /\ cache = IF loaded THEN 1 ELSE 0
    /\ queueFile = pending
    /\ thisMs = {}
    /\ overdue = {}
    /\ minted = 0
    /\ pairingStore = requests
    /\ clock = 0
    /\ roomUsers = [objs |-> <<>>, cache |-> 0, file |-> approved]
    /\ forwarded = {}
    /\ sentTexts = EmptyBag

MonitorStartedWith(c, pending, loaded) ==
    MonitorStartedOver(c, pending, loaded, <<>>, <<>>)

MonitorStarted(c) == MonitorStartedWith(c, <<>>, TRUE)

InitOthers == MonitorStarted(DefaultConfig)

Init ==
    /\ InitSession([socks |-> MaxSockets, msgId |-> MaxMsgId, ext |-> 0, inbound |-> 0])
    /\ InitOthers

SocketEvents ==
    \/ \E s \in Socks : OnOpen(s)
    \/ \E s \in Socks : OnConnected(s)
    \/ \E s \in Socks : \E id \in unanswered[s] : \E isError \in BOOLEAN : OnResult(s, id, isError)
    \/ \E s \in Socks : OnPeerClosing(s)
    \/ \E s \in Socks : OnError(s)
    \/ \E s \in Socks : OnErrorAndClose(s)
    \/ \E s \in Socks : OnClose(s)
    \/ ReconnectTimer

\* The session with callers that subscribe to rooms.
Next ==
    \/ Connect
    \/ Disconnect
    \/ SocketEvents
    \/ \E r \in RoomInputs : SubscribeToRoom(r)
    \/ \E l \in RoomLists : SubscribeToRooms(l)

\* The session with callers that make RPC calls and subscribe to user events.
NextRpc ==
    \/ Connect
    \/ Disconnect
    \/ SocketEvents
    \/ CallMethod
    \/ \E e \in MonitoredEvents : SubscribeToUserEvent(e)

InitRpc ==
    /\ InitSession([socks |-> RpcSockets, msgId |-> MaxRpcIds, ext |-> MaxExtCalls, inbound |-> 0])
    /\ InitOthers

SpecRpc == InitRpc /\ [][NextRpc]_vars

\* The session with callers that subscribe to user events of either name, in
\* any connection state.
NextUserSubs ==
    \/ Connect
    \/ Disconnect
    \/ SocketEvents
    \/ \E e \in UserEvents : SubscribeToUserEvent(e)

InitUserSubs ==
    /\ InitSession([socks |-> UserSubSockets, msgId |-> UserSubIds, ext |-> 0, inbound |-> 0])
    /\ InitOthers

SpecUserSubs == InitUserSubs /\ [][NextUserSubs]_vars

\* The session with no caller but connect() and disconnect(): the reconnect loop.
NextBackoff ==
    \/ Connect
    \/ Disconnect
    \/ SocketEvents

\* The session after k opening handshakes in a row have failed (the first
\* connect() and k - 1 reconnects): no socket, the reconnect timeout armed, the
\* delay doubled k times.  Socket 1 stands for the last of the failed ones.
AfterFailures(limits, k) ==
    [Constructed(limits) EXCEPT
        !.reconnectTimeout = TRUE,
        !.timersLive.reconnect = 1,
        !.reconnectDelayMs = Min(BaseDelayMs * Pow2(k), reconnectMaxDelayMs),
        !.sock[1] = "CLOSED",
        !.attempt[1] = [kind |-> IF k = 1 THEN "initial" ELSE "timer",
                        settled |-> TRUE, outcome |-> "rejected"],
        !.schedLog = [i \in 1..k |-> Min(BaseDelayMs * Pow2(i - 1), reconnectMaxDelayMs)]]

InitBackoff ==
    /\ \/ InitSession([socks |-> BackoffSockets, msgId |-> BackoffSockets, ext |-> 0, inbound |-> 0])
       \/ \E k \in 1..FailedBefore :
             Is(AfterFailures([socks |-> BackoffSockets, msgId |-> BackoffSockets, ext |-> 0, inbound |-> 0], k))
    /\ InitOthers

SpecBackoff == InitBackoff /\ [][NextBackoff]_vars

\* The reconnect loop of a new session, with sockets enough for the close
\* event of a socket to come after its successor has been opened.
InitRaces ==
    /\ InitSession([socks |-> RaceSockets, msgId |-> RaceSockets, ext |-> 0, inbound |-> 0])
    /\ InitOthers

SpecRaces == InitRaces /\ [][NextBackoff]_vars

\* The monitor on a live session: messages arrive and are handled.
NextMonitor ==
    \/ \E f \in Frames : OnChanged(f)
    \/ \E i \in DOMAIN handlers : OnChangedAgain(i)
    \/ \E i \in DOMAIN handlers : Resume(i)
    \/ Tick

InitMonitor ==
    /\ Is(LiveSession([socks |-> 1, msgId |-> 3, ext |-> 0, inbound |-> MaxInbound]))
    /\ \E c \in Configs : MonitorStarted(c)

SpecMonitor == InitMonitor /\ [][NextMonitor]_vars

(***************************************************************************)
(* The approval queue with callers that call its functions while earlier   *)
(* calls are awaiting the file: the module starts with or without its      *)
(* cache filled, over a file that is empty or holds a pending approval of  *)
(* an earlier run.                                                         *)
(***************************************************************************)
EarlierApproval ==
    [id |-> "q0", type |-> "dm", targetId |-> "uE", targetName |-> "eve",
     targetUsername |-> "eve", replyRoomId |-> "dE", status |-> "pending",
     decidedBy |-> "", decidedAt |-> 0, lastNotifiedAt |-> "later",
     expires |-> TRUE, notifyMessageIds |-> {}]
QueueFiles == { <<>>, << EarlierApproval >> }
QueueTargets == { "uE", "uA" }
QueueCalls ==
    [op : { "create" }, type : { "dm" }, target : QueueTargets, timeoutMs : BOOLEAN]
    \cup [op : { "approve", "deny" }, type : { "dm" }, target : QueueTargets,
          timeoutMs : { FALSE }]
    \cup { [op |-> "sweep", type |-> "dm", target |-> "", timeoutMs |-> FALSE] }

NextQueue ==
    \/ \E c \in QueueCalls : Call(c)
    \/ \E i \in DOMAIN handlers : Resume(i)
    \/ Tick
    \/ \E id \in Range(RecordIds) \cup { "q0" } : Elapse(id)

InitQueue ==
    /\ InitSession([socks |-> 1, msgId |-> 1, ext |-> 0, inbound |-> MaxCalls])
    /\ \E pending \in QueueFiles : \E loaded \in BOOLEAN :
          MonitorStartedWith(DefaultConfig, pending, loaded)

SpecQueue == InitQueue /\ [][NextQueue]_vars

(***************************************************************************)
(* The monitor under owner approval with an approver and notify channels:  *)
(* a user and the approver write to the bot, the approver decides by       *)
(* command, users react to messages.  The module of the queue starts with  *)
(* or without its cache filled.                                            *)
(***************************************************************************)
ApprovalConfigs ==
    [ dmPolicy : { "owner-approval" }, groupPolicy : { "owner-approval" },
      ownerApproval :
        [ present : { TRUE }, enabled : { TRUE }, approvers : { << "@boss" >> },
          notifyChannels : { << "#ops", "@boss" >> },
          notifyOnApprove : { "absent" }, notifyOnDeny : { "absent" },
          timeout : { FALSE } ],
      allowFrom : { <<>>, << "@boss" >> }, groupAllowFrom : { <<>> },
      rooms : { NoRooms } ]

ApprovalTemplates ==
    { [u |-> Eve, rid |-> "dE", msg |-> "hi", t |-> ""],
      [u |-> Boss, rid |-> "dB", msg |-> "hi", t |-> ""],
      [u |-> Boss, rid |-> "dB", msg |-> "approve @eve", t |-> ""],
      [u |-> Boss, rid |-> "dB", msg |-> "deny @eve", t |-> ""] }
ApprovalFrames ==
    { << m >> : m \in ApprovalTemplates } \cup
    { << [u |-> Eve, rid |-> "dE", msg |-> "hi", t |-> ""],
         [u |-> Eve, rid |-> "dE", msg |-> "hi", t |-> ""] >> }

\* msg.reactions of a message one user has reacted to.
ReactionLists ==
    { << [emoji |-> ":white_check_mark:", username |-> "boss"] >>,
      << [emoji |-> ":x:", username |-> "boss"] >>,
      << [emoji |-> ":white_check_mark:", username |-> "eve"] >> }

\* The messages of the users that have arrived.
Arrived ==
    { [_id |-> handlers[i].msg._id, u |-> handlers[i].msg.u, rid |-> handlers[i].msg.rid,
       msg |-> handlers[i].msg.msg, t |-> handlers[i].msg.t] : i \in DOMAIN handlers }

NextApproval ==
    \/ \E f \in ApprovalFrames : OnChanged(f)
    \/ \E i \in DOMAIN handlers : OnChangedAgain(i)
    \/ \E message \in Posted \cup Arrived : \E reactions \in ReactionLists :
          OnReacted(message, reactions)
    \/ \E i \in DOMAIN handlers : Resume(i)
    \/ Tick

\* An approval of the approver from before they were made one, pending or
\* denied.
EarlierOfApprover ==
    [EarlierApproval EXCEPT !.id = "q0", !.targetId = "uB", !.targetName = "boss",
                            !.targetUsername = "boss", !.replyRoomId = "dB"]

InitApproval ==
    /\ Is(LiveSession([socks |-> 1, msgId |-> 3, ext |-> 0, inbound |-> MaxInbound]))
    /\ \E c \in ApprovalConfigs :
          \E pending \in { <<>>, << EarlierOfApprover >>,
                            << [EarlierOfApprover EXCEPT !.status = "denied"] >> } :
              \E loaded \in BOOLEAN : MonitorStartedWith(c, pending, loaded)

SpecApproval == InitApproval /\ [][NextApproval]_vars

(***************************************************************************)
(* dmPolicy pairing: users the bot does not know write to it, while time   *)
(* passes.  The file of the requests is empty, or holds the requests of an *)
(* earlier run of the process: of eve and of two others, eve's the oldest. *)
(***************************************************************************)
EarlierRequests ==
    << [id |-> "uE", code |-> 10, createdAt |-> 0, lastSeenAt |-> 0],
       [id |-> "uX", code |-> 11, createdAt |-> 0, lastSeenAt |-> 0],
       [id |-> "uY", code |-> 12, createdAt |-> 0, lastSeenAt |-> 0] >>

PairingConfig ==
    [ dmPolicy |-> "pairing", groupPolicy |-> "open", ownerApproval |-> NoOwnerApproval,
      allowFrom |-> <<>>, groupAllowFrom |-> <<>>, rooms |-> NoRooms ]

PairingFrames ==
    { << [u |-> Eve, rid |-> "dE", msg |-> "hi", t |-> ""] >>,
      << [u |-> Alice, rid |-> "dA", msg |-> "hi", t |-> ""] >>,
      << [u |-> Eve, rid |-> "dE", msg |-> "hi", t |-> ""],
         [u |-> Eve, rid |-> "dE", msg |-> "hi", t |-> ""] >> }

NextPairing ==
    \/ \E f \in PairingFrames : OnChanged(f)
    \/ \E i \in DOMAIN handlers : Resume(i)
    \/ Advance

InitPairing ==
    /\ Is(LiveSession([socks |-> 1, msgId |-> 3, ext |-> 0, inbound |-> MaxInbound]))
    /\ \E requests \in { <<>>, EarlierRequests } :
          MonitorStartedOver(PairingConfig, <<>>, TRUE, requests, <<>>)

SpecPairing == InitPairing /\ [][NextPairing]_vars

(***************************************************************************)
(* The DM gate under each policy that has one, with an allow-list in the   *)
(* configuration (by username, the wildcard, or none) and the allow-list   *)
(* of the store, which addToAllowFrom fills while users write to the bot.  *)
(***************************************************************************)
AllowConfigs ==
    { [ dmPolicy |-> pol, groupPolicy |-> "open",
        ownerApproval |-> (IF pol = "owner-approval" THEN FullOwnerApproval
                           ELSE NoOwnerApproval),
        allowFrom |-> list, groupAllowFrom |-> <<>>, rooms |-> NoRooms ] :
        pol \in { "allowlist", "pairing", "owner-approval", "disabled" },
        list \in { <<>>, << "@Alice" >>, << "*" >> } }

AllowFrames ==
    { << [u |-> Eve, rid |-> "dE", msg |-> "hi", t |-> ""] >>,
      << [u |-> Alice, rid |-> "dA", msg |-> "hi", t |-> ""] >> }

NextAllow ==
    \/ \E f \in AllowFrames : OnChanged(f)
    \/ \E entry \in { "uE", "uA" } : AddToAllowFrom(entry)
    \/ \E i \in DOMAIN handlers : Resume(i)

InitAllow ==
    /\ Is(LiveSession([socks |-> 1, msgId |-> 3, ext |-> 0, inbound |-> MaxInbound]))
    /\ \E c \in AllowConfigs : MonitorStarted(c)

SpecAllow == InitAllow /\ [][NextAllow]_vars

(***************************************************************************)
(* The running monitor and the expiry of approvals: ownerApproval.timeout  *)
(* is configured, the file of the queue is empty or holds a pending        *)
(* approval of eve that expires, eve writes to the bot, the approver       *)
(* decides by command, and time passes.  What the monitor has started goes *)
(* on: every await of a handler returns.                                   *)
(***************************************************************************)
ExpiryConfig ==
    [ dmPolicy |-> "owner-approval", groupPolicy |-> "open",
      ownerApproval |-> [FullOwnerApproval EXCEPT !.timeout = TRUE],
      allowFrom |-> <<>>, groupAllowFrom |-> <<>>, rooms |-> NoRooms ]

ExpiryFrames ==
    { << [u |-> Eve, rid |-> "dE", msg |-> "hi", t |-> ""] >>,
      << [u |-> Alice, rid |-> "dA", msg |-> "hi", t |-> ""] >>,
      << [u |-> Boss, rid |-> "dB", msg |-> "approve @eve", t |-> ""] >> }

\* The approvals a run with MaxExpiry messages can hold: the earlier one and
\* one per message.
ExpiryIds == { "q0" } \cup { RecordIds[k] : k \in 1..MaxExpiry }

NextExpiry ==
    \/ \E f \in ExpiryFrames : OnChanged(f)
    \/ \E i \in DOMAIN handlers : Resume(i)
    \/ Tick
    \/ \E id \in ExpiryIds : Elapse(id)

InitExpiry ==
    /\ Is(LiveSession([socks |-> 1, msgId |-> 3, ext |-> 0, inbound |-> MaxExpiry]))
    /\ \E pending \in QueueFiles : \E loaded \in BOOLEAN :
          MonitorStartedWith(ExpiryConfig, pending, loaded)

\* Resume(i) is enabled exactly when handler i exists and has not returned.
Resumable(i) == i \in DOMAIN handlers /\ handlers[i].pc # "done"

\* Every await of a handler returns (weak fairness of Resume(i), with its
\* enabling condition written out), and time passes.
ExpiryFairness ==
    /\ \A i \in 1..MaxExpiry :
          []<>(~Resumable(i)) \/ []<><<Resumable(i) /\ Resume(i)>>_vars
    /\ \A id \in ExpiryIds : WF_vars(Elapse(id))

SpecExpiry == InitExpiry /\ [][NextExpiry]_vars /\ ExpiryFairness

(***************************************************************************)
(* parseApprovalCommand by itself: one call for a text of up to MaxPieces  *)
(* pieces, which begins with any piece and goes on with names, keywords    *)
(* and separators.                                                         *)
(***************************************************************************)
FirstPieces ==
    { "approve", "yes", "OK", "y", "Deny", "no", "n", "reject", "List", "pending",
      "hello", "@eve", Blank }
LaterPieces == { "@eve", "room:r1", "pending", Blank, LineBreak, "," }
Texts ==
    { <<>> } \cup
    { << first >> \o later :
        first \in FirstPieces,
        later \in UNION { [1..n -> LaterPieces] : n \in 0..(MaxPieces - 1) } }

NextParse ==
    /\ Len(handlers) < lim.inbound
    /\ \E text \in Texts : ParseCall(text)

InitParse ==
    /\ Is(LiveSession([socks |-> 1, msgId |-> 3, ext |-> 0, inbound |-> 1]))
    /\ MonitorStarted(DefaultConfig)

SpecParse == InitParse /\ [][NextParse]_vars

(***************************************************************************)
(* The advertised replies: the queue holds one or two pending approvals    *)
(* (DMs of a user with and without a username, two rooms), and approvers   *)
(* send the replies the notification and the pending list show for them.   *)
(***************************************************************************)
NamelessApproval ==
    [EarlierApproval EXCEPT !.id = "q1", !.targetId = "uA", !.targetName = "",
                            !.targetUsername = "", !.replyRoomId = "dA"]
RoomApproval ==
    [EarlierApproval EXCEPT !.id = "p0", !.type = "room", !.targetId = "r1",
                            !.targetName = getRoom("r1").name, !.targetUsername = "",
                            !.replyRoomId = "r1"]
OpsRoomApproval ==
    [RoomApproval EXCEPT !.id = "p1", !.targetId = "rOps", !.targetName = "ops",
                         !.replyRoomId = "rOps"]
AdvertisedApprovals == { EarlierApproval, NamelessApproval, RoomApproval, OpsRoomApproval }
AdvertisedQueues ==
    { << a >> : a \in AdvertisedApprovals } \cup
    { q \in AdvertisedApprovals \X AdvertisedApprovals : q[1] # q[2] }

NextReplies ==
    /\ Len(handlers) < lim.inbound
    /\ \E k \in 1..2 : \E by \in { "message", "list" } : \E action \in { "approve", "deny" } :
          ReplyCall(k, by, action)

InitReplies ==
    /\ Is(LiveSession([socks |-> 1, msgId |-> 3, ext |-> 0, inbound |-> MaxReplies]))
    /\ \E c \in ApprovalConfigs : \E pending \in AdvertisedQueues :
          MonitorStartedWith(c, pending, TRUE)

SpecReplies == InitReplies /\ [][NextReplies]_vars

(***************************************************************************)
(* After a denial: the queue holds a denied approval of eve's DMs or of    *)
(* the room r1 (in the file, with the cache filled or not), and eve writes *)
(* to the bot and in the room again.                                       *)
(***************************************************************************)
DeniedOfEve ==
    [EarlierApproval EXCEPT !.status = "denied", !.decidedBy = "boss", !.expires = FALSE]
DeniedOfRoom ==
    [DeniedOfEve EXCEPT !.id = "p0", !.type = "room", !.targetId = "r1", !.targetName = getRoom("r1").name,
                        !.targetUsername = "", !.replyRoomId = "r1"]
DeniedFrames ==
    { << [u |-> Eve, rid |-> "dE", msg |-> "hi", t |-> ""] >>,
      << [u |-> Eve, rid |-> "r1", msg |-> "hi", t |-> ""] >> }

NextDenied ==
    \/ \E f \in DeniedFrames : OnChanged(f)
    \/ \E i \in DOMAIN handlers : Resume(i)
    \/ Tick

InitDenied ==
    /\ Is(LiveSession([socks |-> 1, msgId |-> 3, ext |-> 0, inbound |-> MaxDenied]))
    /\ \E c \in ApprovalConfigs : \E loaded \in BOOLEAN :
          MonitorStartedWith(c, << DeniedOfEve, DeniedOfRoom >>, loaded)

SpecDenied == InitDenied /\ [][NextDenied]_vars

(***************************************************************************)
(* The silent drops: each policy that drops messages, with eve, who is on  *)
(* no list, and alice, who is on the lists, writing to the bot and in the  *)
(* room r1; under owner approval the queue holds a pending approval of eve *)
(* from an earlier run, or is empty.                                       *)
(***************************************************************************)
IgnoringRoomConfig ==
    [responseMode |-> "always", canInteract |-> << "@alice" >>,
     roomApprovers |-> <<>>, onMentionUnauthorized |-> "ignore"]

DropConfigs ==
    { [ dmPolicy |-> "disabled", groupPolicy |-> "disabled",
        ownerApproval |-> NoOwnerApproval,
        allowFrom |-> <<>>, groupAllowFrom |-> <<>>, rooms |-> NoRooms ],
      [ dmPolicy |-> "allowlist", groupPolicy |-> "allowlist",
        ownerApproval |-> NoOwnerApproval,
        allowFrom |-> << "@Alice" >>, groupAllowFrom |-> << "#ops" >>, rooms |-> NoRooms ],
      [ dmPolicy |-> "owner-approval", groupPolicy |-> "owner-approval",
        ownerApproval |-> FullOwnerApproval,
        allowFrom |-> <<>>, groupAllowFrom |-> <<>>, rooms |-> NoRooms ],
      [ dmPolicy |-> "open", groupPolicy |-> "open",
        ownerApproval |-> NoOwnerApproval,
        allowFrom |-> <<>>, groupAllowFrom |-> <<>>,
        rooms |-> ("r1" :> IgnoringRoomConfig) ] }

DropFrames ==
    { << [u |-> Eve, rid |-> "dE", msg |-> "hi", t |-> ""] >>,
      << [u |-> Eve, rid |-> "r1", msg |-> "hi", t |-> ""] >>,
      << [u |-> Eve, rid |-> "r1", msg |-> "@bot hi", t |-> ""] >>,
      << [u |-> Alice, rid |-> "dA", msg |-> "hi", t |-> ""] >>,
      << [u |-> Alice, rid |-> "r1", msg |-> "hi", t |-> ""] >> }

NextDrops ==
    \/ \E f \in DropFrames : OnChanged(f)
    \/ \E i \in DOMAIN handlers : Resume(i)
    \/ Tick

InitDrops ==
    /\ Is(LiveSession([socks |-> 1, msgId |-> 3, ext |-> 0, inbound |-> MaxDrops]))
    /\ \E c \in DropConfigs : \E pending \in QueueFiles :
          /\ pending # <<>> => c.dmPolicy = "owner-approval"
          /\ MonitorStartedWith(c, pending, TRUE)

SpecDrops == InitDrops /\ [][NextDrops]_vars

(***************************************************************************)
(* The typing indicator: users write to the bot, whose dispatch to the     *)
(* agent takes any time; the timeout and the interval of each handler fire *)
(* and the typing calls return in any order with it.                       *)
(***************************************************************************)
TypingFrames ==
    { << [u |-> user, rid |-> DmRoomOf(user), msg |-> "hi", t |-> ""] >> :
        user \in { Eve, Alice } }

NextTyping ==
    \/ \E f \in TypingFrames : OnChanged(f)
    \/ \E i \in DOMAIN handlers : Resume(i)
    \/ \E i \in DOMAIN handlers : TypingDelayElapsed(i)
    \/ \E i \in DOMAIN handlers : TypingCallReturned(i)
    \/ \E i \in DOMAIN handlers : TypingPing(i)

InitTyping ==
    /\ Is(LiveSession([socks |-> 1, msgId |-> 3, ext |-> 0, inbound |-> MaxTyping]))
    /\ MonitorStarted(DefaultConfig)

SpecTyping == InitTyping /\ [][NextTyping]_vars

(***************************************************************************)
(* The duplicates: users write to the bot, the server streams messages     *)
(* again under their ids, and the cleanup timer fires in between.          *)
(***************************************************************************)
\* The first delivery of a message is one that carries reactions already.
OnChangedReacted(message, reactions) ==
    /\ Live
    /\ Len(handlers) < lim.inbound
    /\ CommitMonitor([Monitor EXCEPT !.handlers =
           Append(@, NewHandler([_id |-> arrived + 1, u |-> message.u, rid |-> message.rid,
                                 msg |-> message.msg, t |-> message.t,
                                 reactions |-> reactions]))])
    /\ arrived' = arrived + 1
    /\ UNCHANGED << sessionVars, config >>

DedupFrames ==
    { << [u |-> user, rid |-> DmRoomOf(user), msg |-> "hi", t |-> ""] >> :
        user \in { Eve, Alice, Boss } }

NextDedup ==
    \/ \E f \in DedupFrames : OnChanged(f)
    \/ \E i \in DOMAIN handlers : OnChangedAgain(i)
    \/ \E i \in DOMAIN handlers : Resume(i)
    \/ Cleanup

InitDedup ==
    /\ Is(LiveSession([socks |-> 1, msgId |-> 3, ext |-> 0, inbound |-> MaxDeliveries]))
    /\ MonitorStarted(DefaultConfig)

SpecDedup == InitDedup /\ [][NextDedup]_vars

\* The monitor from its start: connect() is called on a new session, the
\* sockets fail or not, and a message arrives once the session is live.
NextStartup ==
    \/ Connect
    \/ Disconnect
    \/ SocketEvents
    \/ \E f \in DedupFrames : OnChanged(f)
    \/ \E i \in DOMAIN handlers : Resume(i)

InitStartup ==
    /\ InitSession([socks |-> StartupSockets, msgId |-> StartupSockets, ext |-> 0, inbound |-> 1])
    /\ InitOthers

SpecStartup == InitStartup /\ [][NextStartup]_vars

\* The monitor with messages that carry reactions when they are delivered for
\* the first time or again, the queue's cache filled or not.
ReactionsOfUsers == { reactions \in ReactionLists : reactions[1].username = "eve" }

NextReacted ==
    \/ \E f \in DedupFrames : OnChanged(f)
    \/ \E f \in DedupFrames : \E reactions \in ReactionsOfUsers : OnChangedReacted(f[1], reactions)
    \/ \E message \in Arrived : \E reactions \in ReactionsOfUsers : OnReacted(message, reactions)
    \/ \E i \in DOMAIN handlers : Resume(i)
    \/ Cleanup

InitReacted ==
    /\ Is(LiveSession([socks |-> 1, msgId |-> 3, ext |-> 0, inbound |-> MaxReacted]))
    /\ \E loaded \in BOOLEAN : MonitorStartedWith(DefaultConfig, <<>>, loaded)

SpecReacted == InitReacted /\ [][NextReacted]_vars

(***************************************************************************)
(* The group gate and the notify channels: the room ops is named in        *)
(* ownerApproval.notifyChannels in each of the forms, or is not; the rooms *)
(* on the allow-list are none, another room, or the room itself; eve and   *)
(* the approver write in ops and eve writes in r1.                         *)
(***************************************************************************)
NotifyForms == { "room:rOps", "room:Ops", "#ops", "#Ops", "rOps", "Ops" }

NotifyConfigs ==
    { [ dmPolicy |-> "open", groupPolicy |-> pol,
        ownerApproval |-> [FullOwnerApproval EXCEPT !.enabled = on, !.notifyChannels = list],
        allowFrom |-> <<>>, groupAllowFrom |-> rooms, rooms |-> NoRooms ] :
        pol \in { "allowlist", "owner-approval" }, on \in BOOLEAN,
        list \in { << form >> : form \in NotifyForms } \cup
                 { <<>>, << "@boss" >>, << "@boss", "#ops" >> },
        rooms \in { <<>>, << "r1" >>, << "#ops" >> } }

NotifyFrames ==
    { << [u |-> Eve, rid |-> "rOps", msg |-> "hi", t |-> ""] >>,
      << [u |-> Boss, rid |-> "rOps", msg |-> "hi", t |-> ""] >>,
      << [u |-> Eve, rid |-> "r1", msg |-> "hi", t |-> ""] >> }

NextNotify ==
    \/ \E f \in NotifyFrames : OnChanged(f)
    \/ \E i \in DOMAIN handlers : Resume(i)

InitNotify ==
    /\ Is(LiveSession([socks |-> 1, msgId |-> 3, ext |-> 0, inbound |-> MaxAcl]))
    /\ \E c \in NotifyConfigs : MonitorStarted(c)

SpecNotify == InitNotify /\ [][NextNotify]_vars

(***************************************************************************)
(* The per-room access control: room r1 is open to the bot and has a block *)
(* in account.config.rooms; users write in it, with and without a mention  *)
(* of the bot, and an approver writes room commands; the file of the room  *)
(* users is empty or holds eve, and no call has loaded it yet.             *)
(***************************************************************************)
RoomConfigs ==
    [ responseMode : { "absent", "always", "mention-only" },
      canInteract : { <<>>, << "@alice" >> },
      roomApprovers : { <<>>, << "@boss" >> },
      onMentionUnauthorized : { "absent", "reply" } ]

AclConfigs ==
    { [ dmPolicy |-> "open", groupPolicy |-> "open", ownerApproval |-> oa,
        allowFrom |-> <<>>, groupAllowFrom |-> <<>>, rooms |-> ("r1" :> rc) ] :
        oa \in { NoOwnerApproval, FullOwnerApproval }, rc \in RoomConfigs }

AclTexts == { "hi", "@bot hi" }
AclFrames ==
    { << [u |-> user, rid |-> "r1", msg |-> text, t |-> ""] >> :
        user \in { Eve, Alice, Boss }, text \in AclTexts }
    \cup
    { << [u |-> Boss, rid |-> "r1", msg |-> text, t |-> ""] >> :
        text \in { "room-list", "room-approve @eve", "room-deny @eve" } }

EveApproved == << [userId |-> "uE", username |-> "eve"] >>

NextAcl ==
    \/ \E f \in AclFrames : OnChanged(f)
    \/ \E i \in DOMAIN handlers : Resume(i)

\* The room of the README's example, which is explored with one message
\* more than the others.
ExampleRoomConfig ==
    [responseMode |-> "mention-only", canInteract |-> << "@alice" >>,
     roomApprovers |-> <<>>, onMentionUnauthorized |-> "reply"]

InitAcl ==
    \E c \in AclConfigs : \E approved \in { <<>>, EveApproved } :
        /\ Is(LiveSession([socks |-> 1, msgId |-> 3, ext |-> 0,
                           inbound |-> IF c.rooms["r1"] = ExampleRoomConfig
                                          /\ c.ownerApproval = NoOwnerApproval
                                       THEN MaxAcl + 1 ELSE MaxAcl]))
        /\ MonitorStartedOver(c, <<>>, TRUE, <<>>, approved)

SpecAcl == InitAcl /\ [][NextAcl]_vars

(***************************************************************************)
(* The store of the room users with callers that call its functions while  *)
(* earlier calls await the file, the way the handlers of room messages and *)
(* of room commands do: addRoomUser with the id and the name users.info    *)
(* has answered, removeRoomUser with a username, isRoomUserApproved with   *)
(* the sender's id and name.  Zed has eve's username in capitals.          *)
(***************************************************************************)
Zed == [_id |-> "uZ", username |-> "EVE"]
RoomUserOps == { "addRoomUser", "removeRoomUser", "isRoomUserApproved" }

NextRoomUsers ==
    \/ \E op \in RoomUserOps : \E user \in { Eve, Alice, Zed } : RoomUserCall(op, user)
    \/ \E i \in DOMAIN handlers : Resume(i)

InitRoomUsers ==
    /\ Is(LiveSession([socks |-> 1, msgId |-> 3, ext |-> 0, inbound |-> MaxCalls]))
    /\ \E approved \in { <<>>, EveApproved } :
          MonitorStartedOver(DefaultConfig, <<>>, TRUE, <<>>, approved)

SpecRoomUsers == InitRoomUsers /\ [][NextRoomUsers]_vars

(***************************************************************************)
(* isApprover by itself: one call for a principal, a list of up to         *)
(* MaxPatterns patterns, the answers of the role lookups and the state of  *)
(* the roleCache.                                                          *)
(***************************************************************************)
ApproverPatterns ==
    { " ", "@boss", "@Alice", "role:admin", " role:admin ", "role:Owner", "uB", "Boss" }
ApproverLists == UNION { [1..n -> ApproverPatterns] : n \in 0..MaxPatterns }
Principals == { Boss, Alice, Eve, [Boss EXCEPT !.username = Undefined] }
Lookups == [1..MaxPatterns -> { "ok", "notOk", "error" }]

NextApprover ==
    /\ Len(handlers) < lim.inbound
    /\ \E user \in Principals : \E patterns \in ApproverLists :
          \E lookups \in Lookups : \E cached \in BOOLEAN :
              ApproverCall(user, patterns, lookups, cached)

InitApprover ==
    /\ Is(LiveSession([socks |-> 1, msgId |-> 3, ext |-> 0, inbound |-> 1]))
    /\ MonitorStarted(DefaultConfig)

SpecApprover == InitApprover /\ [][NextApprover]_vars

(***************************************************************************)
(* The two stores with a file system that can fail: a caller calls the     *)
(* functions that change the approval queue and the room users one after   *)
(* the other, each when the one before has returned or thrown, and a write *)
(* succeeds or fails.                                                      *)
(***************************************************************************)
FaultCalls ==
    [op : { "create", "approve", "deny" }, type : { "dm" }, target : QueueTargets,
     timeoutMs : { FALSE }]

Returned == \A j \in DOMAIN handlers : handlers[j].pc = "done"

NextFaults ==
    \/ \E c \in FaultCalls : Returned /\ Call(c)
    \/ \E op \in RoomUserOps : \E user \in { Eve, Alice } :
          Returned /\ RoomUserCall(op, user)
    \/ \E i \in DOMAIN handlers : Resume(i)
    \/ \E i \in DOMAIN handlers : WriteFails(i)

InitFaults ==
    /\ Is(LiveSession([socks |-> 1, msgId |-> 3, ext |-> 0, inbound |-> MaxCalls]))
    /\ \E pending \in QueueFiles : \E loaded \in BOOLEAN :
          \E approved \in { <<>>, EveApproved } :
              MonitorStartedOver(DefaultConfig, pending, loaded, <<>>, approved)

SpecFaults == InitFaults /\ [][NextFaults]_vars

(***************************************************************************)
(* The store of the pairing requests with callers that call                *)
(* upsertChannelPairingRequest while earlier calls await the file, from    *)
(* the empty store on and from a store at MAX_PENDING.                     *)
(***************************************************************************)
\* The requesters, named in the order of their first calls.
Requesters == << "uE", "uX", "uY", "uA", "uB" >>

Called ==
    { handlers[j].call.target : j \in DOMAIN handlers } \cup
    { pairingStore[k].id : k \in DOMAIN pairingStore }

NextUpserts ==
    \/ \E k \in DOMAIN Requesters :
          k <= Cardinality(Called) + 1 /\ Upsert(Requesters[k])
    \/ \E i \in DOMAIN handlers : Resume(i)
    \/ Advance

InitUpserts ==
    \E requests \in { <<>>, EarlierRequests } :
        /\ Is(LiveSession([socks |-> 1, msgId |-> 3, ext |-> 0,
                           inbound |-> MaxUpserts - Len(requests) \div 2]))
        /\ MonitorStartedOver(DefaultConfig, <<>>, TRUE, requests, <<>>)

SpecUpserts == InitUpserts /\ [][NextUpserts]_vars

(***************************************************************************)
(* The approval commands: the store holds pending approvals of two users   *)
(* and of a room, and the approver writes commands to the bot, in a DM or  *)
(* in the notify room, one in a frame or two.                              *)
(***************************************************************************)
CommandQueue ==
    << [EarlierApproval EXCEPT !.expires = FALSE],
       [EarlierApproval EXCEPT !.id = "qA", !.targetId = "uA", !.targetName = "alice",
                               !.targetUsername = "alice", !.replyRoomId = "dA",
                               !.expires = FALSE],
       [EarlierApproval EXCEPT !.id = "qR", !.type = "room", !.targetId = "r1",
                               !.targetName = "room1", !.targetUsername = "",
                               !.replyRoomId = "r1", !.expires = FALSE] >>

CommandConfigs ==
    [ dmPolicy : { "owner-approval" }, groupPolicy : { "owner-approval" },
      ownerApproval :
        [ present : { TRUE }, enabled : { TRUE }, approvers : { << "@boss" >> },
          notifyChannels : { << "#ops" >> },
          notifyOnApprove : { "absent", "false" }, notifyOnDeny : { "absent", "true" },
          timeout : { FALSE } ],
      allowFrom : { <<>> }, groupAllowFrom : { <<>> },
      rooms : { NoRooms } ]

\* What the approver writes: commands, and the reply the notification
\* suggests, which is none.
CommandTexts ==
    { "list", "pending", "approve @eve", "approve EVE", "approve uE", "approve q0",
      "approve @Alice", "approve @nobody", "approve room:r1", "approve r1",
      "approve @eve uE", "approve @eve @nobody room:r1", "yes eve", "deny @eve", "deny room:r1",
      "deny @nobody, @eve", "no eve", "--approve eve" }
CommandTemplates ==
    [ u : { Boss }, rid : { "dB" }, msg : CommandTexts, t : { "" } ] \cup
    [ u : { Boss }, rid : { "rOps" },
      msg : { "list", "approve @eve", "deny room:r1", "--approve eve" }, t : { "" } ]
CommandFrames ==
    { << m >> : m \in CommandTemplates } \cup
    { << [u |-> Boss, rid |-> "dB", msg |-> "approve @eve", t |-> ""],
         [u |-> Boss, rid |-> "dB", msg |-> x, t |-> ""] >> :
        x \in { "approve @Alice", "deny @eve" } }

NextCommands ==
    \/ \E f \in CommandFrames : OnChanged(f)
    \/ \E i \in DOMAIN handlers : Resume(i)

InitCommands ==
    /\ Is(LiveSession([socks |-> 1, msgId |-> 3, ext |-> 0, inbound |-> MaxCommands]))
    /\ \E c \in CommandConfigs : \E loaded \in BOOLEAN :
          MonitorStartedWith(c, CommandQueue, loaded)

SpecCommands == InitCommands /\ [][NextCommands]_vars

(***************************************************************************)
(* The session of SpecRpc with a server and timers that do their part: a   *)
(* pending opening handshake ends (in open or in failure), the server      *)
(* answers the connect frame and every method frame it received, a socket  *)
(* that is closing delivers its close event (ws bounds the closing         *)
(* handshake by a timeout), and a reconnect timeout that is armed fires.   *)
(* Nothing obliges a healthy socket to fail or the program to call in.     *)
(***************************************************************************)
InitFair ==
    /\ InitSession([socks |-> FairSockets, msgId |-> FairIds, ext |-> MaxExtCalls, inbound |-> 0])
    /\ InitOthers

Fairness ==
    /\ WF_vars(ReconnectTimer)
    /\ \A s \in 1..FairSockets :
          /\ WF_vars(OnOpen(s) \/ OnErrorAndClose(s))
          /\ WF_vars(OnConnected(s))
          /\ WF_vars(\E id \in 1..(FairIds + 1) : \E isError \in BOOLEAN : OnResult(s, id, isError))
          /\ WF_vars(OnClose(s) /\ sock[s] # "OPEN")

FairSpec == InitFair /\ [][NextRpc]_vars /\ Fairness

\* The reconnect loop with a timer that does its part: a reconnect timeout that
\* is armed fires.  Nothing is asked of the server or of the sockets.
InitReconnect ==
    /\ InitSession([socks |-> ReconnSockets, msgId |-> ReconnSockets, ext |-> 0, inbound |-> 0])
    /\ InitOthers

ReconnectFairness == WF_vars(ReconnectTimer)

FairReconnect == InitReconnect /\ [][NextBackoff]_vars /\ ReconnectFairness

Spec == Init /\ [][Next]_vars

(***************************************************************************)
(* Notions the properties below share.                                     *)
(***************************************************************************)
\* The room sub frames socket s carried for room r.
SubsOn(s, r) == { f \in subsSent : f.sock = s /\ f.room = r }

(***************************************************************************)
(* C1.  The messages of a session are handled one at a time in arrival     *)
(* order: handleIncomingMessage is not called for a message before it has  *)
(* returned for every message that arrived earlier.                        *)
(***************************************************************************)
C1_OneAtATime ==
    \A i, j \in DOMAIN handlers :
        (i < j /\ handlers[j].pc # "me") => handlers[i].pc = "done"

(***************************************************************************)
(* C2.  Under the owner-approval policy (for DMs, for groups) a message    *)
(* that was handed to the agent came from an approver, or its sender (for  *)
(* a DM) or its room (for a group; a notify channel counts) was on the     *)
(* allow-list when the gate checked, whatever the ownerApproval block of   *)
(* the configuration says.                                                 *)
(***************************************************************************)
C2_OwnerApprovalGate ==
    \A f \in forwarded :
        LET policy == IF isGroupRoom(f.rid) THEN config.groupPolicy ELSE config.dmPolicy
        IN  policy = "owner-approval" =>
                \/ f.isAllowed
                \/ isApprover(f.u._id, f.u.username, config.ownerApproval.approvers)

\* Socket s delivers its close event in this step.
Closes(s) == sock[s] # "CLOSED" /\ sock'[s] = "CLOSED"

\* The connect() that opened socket s is resolved in this step.
Resolves(s) == attempt[s].outcome = "pending" /\ attempt'[s].outcome = "resolved"

\* Socket s is the only socket of the session that is not closed.
OnlySocket(s) == \A t \in Socks \ { s } : sock[t] \in { "NEW", "CLOSED" }

\* Socket s carries exactly one sub frame for every desired room, under the id
\* the session tracks for the room, and the session tracks no other room.
ReplayedOn(s) ==
    /\ \A r \in Range(desiredRoomIds) :
          /\ Cardinality(SubsOn(s, r)) = 1
          /\ \A f \in SubsOn(s, r) : activeSubIdsByRoom[r] = f.id
    /\ \A r \in Rooms \ Range(desiredRoomIds) :
          activeSubIdsByRoom[r] = 0 /\ SubsOn(s, r) = {}

\* No subscription id is used by two sub frames, on one socket or on two.
FreshSubIds == \A f, g \in subsSent : f.id = g.id => f = g

C4_OneSubPerRoom ==
    /\ \A s \in Socks : \A r \in Rooms : Cardinality(SubsOn(s, r)) <= 1
    /\ Live => \A r \in Range(desiredRoomIds) : Cardinality(SubsOn(ws, r)) = 1

(***************************************************************************)
(* C5.  The desired rooms are exactly the trimmed non-empty ids ever       *)
(* passed to subscribeToRoom / subscribeToRooms, in every state of the     *)
(* session; as that set only grows, no operation removes a desired room.   *)
(***************************************************************************)
C5_DesiredComplete ==
    /\ Range(desiredRoomIds) = everPassed
    /\ Len(desiredRoomIds) = Cardinality(everPassed)

\* Both rooms desired after a reconnect and a disconnect().
C5_Witness ==
    /\ Range(desiredRoomIds) = Rooms
    /\ attempt[2].outcome = "resolved"
    /\ ~shouldReconnect

(***************************************************************************)
(* C6.  The delays the session schedules reconnects with are 5 s for the   *)
(* first failure (of the session, or after a successful login) and then    *)
(* twice the previous delay, capped at 60 s: 5, 10, 20, 40, 60, 60, ...    *)
(***************************************************************************)
C6_BackoffDelays ==
    \A i \in DOMAIN schedLog :
        \/ schedLog[i] = LiveMark
        \/ schedLog[i] = IF i = 1 \/ schedLog[i - 1] = LiveMark
                         THEN BaseDelayMs
                         ELSE Min(2 * schedLog[i - 1], reconnectMaxDelayMs)

\* Two reconnects scheduled at the cap, then a login, then a failure.
C6_Witness ==
    \E i \in DOMAIN schedLog :
        /\ i + 3 \in DOMAIN schedLog
        /\ schedLog[i] = reconnectMaxDelayMs
        /\ schedLog[i + 1] = reconnectMaxDelayMs
        /\ schedLog[i + 2] = LiveMark
        /\ schedLog[i + 3] = BaseDelayMs

(***************************************************************************)
(* C7.  The close event of a socket rejects every call outstanding at that *)
(* moment with the disconnect error and leaves the pending table empty,    *)
(* and a call so rejected stays rejected: a result frame that arrives for  *)
(* its id later resolves nothing.                                          *)
(***************************************************************************)
C7_CloseRejectsAll ==
    /\ [][(\E s \in Socks : Closes(s)) =>
            /\ pendingCalls' = {}
            /\ \A id \in pendingCalls : callLog'[id] = "closed"]_vars
    /\ [][\A id \in DOMAIN callLog :
            callLog[id] = "closed" => callLog'[id] = "closed"]_vars

\* A result frame arrived for a call a close event had rejected.
C7_Witness == \E id \in lateResults : callLog[id] = "closed"

(***************************************************************************)
(* C8.  Every call of callMethod is settled sooner or later, whatever      *)
(* state the session was in when it was made.                              *)
(***************************************************************************)
C8_NoCallerHangs ==
    \A id \in 1..(FairIds + 1) : (callLog[id] = "pending") ~> (callLog[id] # "pending")

(***************************************************************************)
(* C9.  Every connect() is settled exactly once: never twice, and sooner   *)
(* or later once.                                                          *)
(***************************************************************************)
C9_OneTerminalResolution ==
    /\ [](\A s \in Socks : attempt[s].outcome # "twice")
    /\ \A s \in 1..FairSockets : (attempt[s].kind # "none") ~> attempt[s].settled

(***************************************************************************)
(* C10.  Once disconnect() has been called the session is down for good:   *)
(* no keep-alive interval runs, no reconnect timeout is armed, the session *)
(* holds no socket, and no socket it opened is open or being opened.       *)
(***************************************************************************)
C10_DisconnectTerminal ==
    ~shouldReconnect =>
        /\ ~pingInterval /\ timersLive.ping = 0
        /\ ~reconnectTimeout /\ timersLive.reconnect = 0
        /\ ws = NoSock
        /\ \A s \in Socks : sock[s] \notin { "CONNECTING", "OPEN" }

\* connect() has been called and every socket the session opened is closed.
Down == attempt[1].kind # "none" /\ \A s \in Socks : sock[s] \in { "NEW", "CLOSED" }

(***************************************************************************)
(* C11.  While disconnect() has not been called, a session whose sockets   *)
(* are all closed has its reconnect timeout armed, and after the close of  *)
(* a socket the next connection attempt is started sooner or later (or     *)
(* disconnect() is called first): after the first socket and again after   *)
(* every attempt that failed.                                              *)
(***************************************************************************)
C11_ReconnectsAfterClose ==
    /\ []((shouldReconnect /\ Down) => (reconnectTimeout /\ timersLive.reconnect > 0))
    /\ \A s \in 1..(ReconnSockets - 1) :
          (sock[s] = "CLOSED" /\ shouldReconnect)
              ~> (attempt[s + 1].kind # "none" \/ ~shouldReconnect)

\* The session was live on socket 1, lost it, failed to connect on socket 2
\* and is connecting on socket 3.
C11_Witness ==
    /\ attempt[1].outcome = "resolved" /\ sock[1] = "CLOSED"
    /\ attempt[2].kind = "timer" /\ attempt[2].outcome = "rejected" /\ sock[2] = "CLOSED"
    /\ attempt[3].kind = "timer" /\ sock[3] = "CONNECTING"
    /\ shouldReconnect

\* The views of the approval store: the file, and every store object (the
\* cache is one of them).
StoreViews == { queueFile } \cup Range(stores)

\* The store holds at most one pending approval for a target and type.
OnePending(store) ==
    \A k, l \in DOMAIN store :
        (/\ store[k].status = "pending" /\ store[l].status = "pending"
         /\ store[k].targetId = store[l].targetId
         /\ store[k].type = store[l].type) => k = l

Approval(store, id) == { store[k] : k \in { j \in DOMAIN store : store[j].id = id } }
\* The view the functions of the queue work on: the cache once it is filled.
Cached == IF cache = 0 THEN <<>> ELSE stores[cache]

(***************************************************************************)
(* C13.  An approval that is approved, denied or expired in the store (the *)
(* cache the functions work on; the file) keeps its status, decidedBy and  *)
(* decidedAt whatever is called later.                                     *)
(***************************************************************************)
C13_DecidedIsFinal ==
    /\ [][\A a \in Range(Cached) :
            (a.status # "pending" /\ cache' # 0) =>
                \A b \in Approval(stores'[cache'], a.id) :
                    /\ b.status = a.status
                    /\ b.decidedBy = a.decidedBy
                    /\ b.decidedAt = a.decidedAt]_vars
    /\ [][\A a \in Range(queueFile) :
            a.status # "pending" =>
                \A b \in Approval(queueFile', a.id) :
                    /\ b.status = a.status
                    /\ b.decidedBy = a.decidedBy
                    /\ b.decidedAt = a.decidedAt]_vars

\* How often handler i has sent the text to the address.
SentBy(i, to, text) == CopiesIn([to |-> to, text |-> text, by |-> i], sentTexts)

RECURSIVE Sum(_, _)
Sum(f, S) == IF S = {} THEN 0 ELSE LET x == CHOOSE y \in S : TRUE IN f[x] + Sum(f, S \ { x })

\* How often the text has been sent to the address.
Sent(to, text) == Sum([i \in DOMAIN handlers |-> SentBy(i, to, text)], DOMAIN handlers)

\* The handlers of the DMs of a user that the DM gate has seen.
GatedDms(user) ==
    { i \in DOMAIN handlers : /\ handlers[i].msg.u = user
                              /\ ~isGroupRoom(handlers[i].msg.rid)
                              /\ handlers[i].gate # "none" }

\* The ids of the approvals of a target in the views of the store.
ApprovalIds(targetId) ==
    UNION { { store[k].id : k \in { j \in DOMAIN store : store[j].targetId = targetId } } :
              store \in StoreViews }

\* No approval of the target has been decided.
Undecided(targetId) ==
    \A store \in StoreViews : \A k \in DOMAIN store :
        store[k].targetId = targetId => store[k].status = "pending"

(***************************************************************************)
(* C14.  Under dmPolicy owner-approval, as long as no approval of a user   *)
(* who is not an approver has been decided, the DMs of the user have       *)
(* created at most one approval, at most one notification has gone to each *)
(* notify channel and at most one waiting notice to the user, however many *)
(* DMs the user sent and whenever; and once all of them are handled there  *)
(* is exactly one of each.                                                 *)
(***************************************************************************)
C14_OneRequestWhilePending ==
    (Undecided(Eve._id) /\ GatedDms(Eve) # {}) =>
        LET channels == config.ownerApproval.notifyChannels
            handled == \A i \in GatedDms(Eve) : handlers[i].pc = "done"
        IN  /\ Cardinality(ApprovalIds(Eve._id)) <= 1
            /\ Sent("dE", "waiting") <= 1
            /\ \A k \in DOMAIN channels : Sent(channels[k], "approval-request") <= 1
            /\ handled =>
                  /\ Cardinality(ApprovalIds(Eve._id)) = 1
                  /\ Sent("dE", "waiting") = 1
                  /\ \A k \in DOMAIN channels : Sent(channels[k], "approval-request") = 1

(***************************************************************************)
(* C15.  Under dmPolicy owner-approval with ownerApproval enabled, a DM of *)
(* an approver is never held at the DM gate: the gate passes it on to the  *)
(* command handling in the step that reaches it, whether the approver is   *)
(* on the allow-list or not and whether the store holds a pending or a     *)
(* denied approval of them; no approval is created for the approver, the   *)
(* one the store holds is not touched, and no notification or waiting      *)
(* notice is sent for their message.                                       *)
(***************************************************************************)
C15_ApproverPassesDmGate ==
    /\ ApprovalIds(Boss._id) \subseteq { EarlierOfApprover.id }
    /\ \A store \in StoreViews : \A a \in Approval(store, EarlierOfApprover.id) :
          a \in { EarlierOfApprover, [EarlierOfApprover EXCEPT !.status = "denied"] }
    /\ \A i \in DOMAIN handlers :
          (handlers[i].msg.u = Boss /\ ~isGroupRoom(handlers[i].msg.rid)) =>
              /\ handlers[i].gate # "reached"
              /\ SentBy(i, handlers[i].msg.rid, "waiting") = 0
              /\ \A k \in DOMAIN config.ownerApproval.notifyChannels :
                    SentBy(i, config.ownerApproval.notifyChannels[k], "approval-request") = 0

\* A DM of the approver went to the agent although the approver is not on
\* the allow-list and the store holds a denied approval of them.
C15_Witness ==
    /\ \E f \in forwarded : f.u = Boss /\ f.rid = "dB" /\ ~f.isAllowed
    /\ cache # 0
    /\ \E a \in Range(Cached) : a.targetId = Boss._id /\ a.status = "denied"

\* Every handler has finished.
Quiet == handlers # <<>> /\ \A i \in DOMAIN handlers : handlers[i].pc = "done"

\* The approval is the one a target of a command names: by target id,
\* approval id or username, in any case and with or without @, as a room
\* under the prefix room: and as a DM without it.
Names(a, target) ==
    LET clean == StripAt(StripRoom(target))
    IN  /\ a.type = (IF StartsWithRoom(target) THEN "room" ELSE "dm")
        /\ \/ a.targetId = clean
           \/ a.id = clean
           \/ a.targetUsername # "" /\ toLowerCase(a.targetUsername) = toLowerCase(clean)

\* The allow-list of a type of approval.
AllowList(type) == allowFromStore[IF type = "room" THEN "rocketchat-rooms" ELSE "rocketchat"]

\* The result lines of the commands that decided an approval.
Decided ==
    { << i, k >> \in (DOMAIN handlers) \X (1..3) :
        k \in DOMAIN handlers[i].results /\ handlers[i].results[k].outcome # "none" }

(***************************************************************************)
(* C16.  Once the commands of the approver have been handled: an approval  *)
(* a command approved is approved in the store, decidedBy the approver     *)
(* and with its decidedAt, its targetId is on the allow-list of its type,  *)
(* and the command has sent one notice to its replyRoomId unless           *)
(* notifyOnApprove is false, and none if it is; an approval a command      *)
(* denied is denied in the store, and the command has sent one notice if   *)
(* notifyOnDeny is true and none otherwise; every entry of the allow-lists *)
(* is the target of an approval a command approved; and no approval that   *)
(* a target of an approve or deny command names is pending any more.       *)
(***************************************************************************)
C16_CommandTakesEffect ==
    Quiet =>
        LET oc == config.ownerApproval
            approved == { a \in Range(Cached) : \E x \in Decided :
                            /\ handlers[x[1]].results[x[2]].outcome = "approved"
                            /\ Names(a, handlers[x[1]].results[x[2]].target) }
        IN  /\ \A x \in Decided :
                  LET i == x[1]
                      line == handlers[i].results[x[2]]
                  IN  \E a \in Range(Cached) :
                        /\ Names(a, line.target)
                        /\ a.status = line.outcome
                        /\ a.decidedBy = handlers[i].msg.u._id
                        /\ a.decidedAt # 0
                        /\ a \in Range(queueFile)
                        /\ line.outcome = "approved" =>
                              /\ toLowerCase(a.targetId) \in AllowList(a.type)
                              /\ SentBy(i, a.replyRoomId, "approved") =
                                    (IF oc.notifyOnApprove # "false" THEN 1 ELSE 0)
                        /\ line.outcome = "denied" =>
                              SentBy(i, a.replyRoomId, "denied") =
                                    (IF oc.notifyOnDeny = "true" THEN 1 ELSE 0)
            /\ \A type \in { "dm", "room" } :
                  AllowList(type) \subseteq
                      { toLowerCase(a.targetId) : a \in { b \in approved : b.type = type } }
            /\ \A i \in DOMAIN handlers : \A k \in DOMAIN handlers[i].command.targets :
                  \A a \in Range(Cached) :
                      Names(a, handlers[i].command.targets[k]) => a.status # "pending"

RECURSIVE AloneInTurn(_, _, _, _)
AloneInTurn(store, action, targets, i) ==
    IF targets = <<>>
    THEN [store |-> store, lines |-> <<>>, listed |-> {}, told |-> {}]
    ELSE LET target == Head(targets)
             hits == { j \in DOMAIN store :
                         store[j].status = "pending" /\ Names(store[j], target) }
             j == CHOOSE x \in hits : \A y \in hits : x <= y
             outcome == IF hits = {} THEN "none"
                        ELSE IF action = "approve" THEN "approved" ELSE "denied"
             decided == IF hits = {} THEN store
                        ELSE [store EXCEPT ![j].status = outcome,
                                           ![j].decidedBy = handlers[i].msg.u._id,
                                           ![j].decidedAt = i]
             rest == AloneInTurn(decided, action, Tail(targets), i)
         IN  [store |-> rest.store,
              lines |-> << [target |-> target, outcome |-> outcome] >> \o rest.lines,
              listed |-> rest.listed \cup
                         (IF outcome = "approved"
                          THEN { << store[j].type, toLowerCase(store[j].targetId) >> }
                          ELSE {}),
              told |-> rest.told \cup
                       (IF hits = {} THEN {} ELSE { store[j].replyRoomId })]

Tracked(i) == findApprovalByMessageId(Cached, handlers[i].msg._id)

\* The message of handler i carries a reaction of an approver from the
\* approve or the deny vocabulary.
ApproverReacted(i) ==
    \E j \in DOMAIN handlers[i].msg.reactions :
        LET r == handlers[i].msg.reactions[j]
        IN  /\ IsApproveEmoji(r.emoji) \/ IsDenyEmoji(r.emoji)
            /\ checkIsApprover(r.username, config.ownerApproval.approvers)

(***************************************************************************)
(* C19.  When the update of a recorded notification of an approval that    *)
(* carries a reaction of an approver from the approve or the deny          *)
(* vocabulary has been handled, the approval is pending no more; and an    *)
(* update that carries reactions of others only decides nothing.           *)
(***************************************************************************)
C19_ReactionDecides ==
    \A i \in DOMAIN handlers :
        (handlers[i].pc = "done" /\ handlers[i].msg.reactions # <<>> /\ Tracked(i) # 0) =>
            IF ApproverReacted(i)
            THEN Cached[Tracked(i)].status # "pending"
            ELSE handlers[i].command.action = "none"

\* The updates of a message with its reactions that have been handled.
Deliveries(msg) ==
    { i \in DOMAIN handlers : handlers[i].msg = msg /\ handlers[i].pc = "done" }

(***************************************************************************)
(* C20.  When the update of a recorded notification with the reaction of   *)
(* an approver has been delivered and handled twice or more, and nothing   *)
(* else has decided the approval, exactly one of the deliveries has        *)
(* decided it: one approveRequest or denyRequest that found it, and one    *)
(* notice to the requester.                                                *)
(***************************************************************************)
C20_ReactionAppliedOnce ==
    \A i \in DOMAIN handlers :
        LET same == Deliveries(handlers[i].msg)
            deciding == { j \in same : handlers[j].command.action # "none" /\ handlers[j].rec # 0 }
            others == { j \in DOMAIN handlers : handlers[j].msg.reactions = <<>>
                                                 /\ handlers[j].command.action # "none" }
        IN  (/\ handlers[i].pc = "done" /\ handlers[i].msg.reactions # <<>>
             /\ Tracked(i) # 0 /\ ApproverReacted(i)
             /\ Cardinality(same) >= 2 /\ others = {})
            => /\ Cardinality(deciding) = 1
               /\ \A j \in deciding :
                     SentBy(j, Cached[Tracked(i)].replyRoomId, decision(Monitor, j)) = 1

\* The handlers of the DMs of a user.
DmsOf(user) ==
    { i \in DOMAIN handlers : handlers[i].msg.u = user /\ ~isGroupRoom(handlers[i].msg.rid) }

\* The pairing requests of a requester in the file.
RequestsOf(id) == { r \in Range(pairingStore) : r.id = id }

\* The file holds a request of the earlier run of the process.
FromEarlierRun == \E r \in Range(pairingStore) : r \in Range(EarlierRequests)

\* The store held a request of the requester when the process started.
FromEarlierRequests(id) ==
    FromEarlierRun /\ \E q \in Range(EarlierRequests) : q.id = id

\* The DM room of a user.
DmRoom(user) == CHOOSE rid \in { "dE", "dA", "dB" } :
                    \E t \in Templates \cup CommandTemplates : t.u = user /\ t.rid = rid

(***************************************************************************)
(* C21.  Under dmPolicy pairing, within the TTL of the requests, for a     *)
(* sender who is not on the allow-list: none of the sender's DMs goes to   *)
(* the agent; the sender gets at most one reply with a pairing code, and   *)
(* none if the store held the sender's request before; and when the        *)
(* sender's DMs have been handled, the sender has got the one reply, the   *)
(* store holds the sender's request with the code that was sent, and       *)
(* lastSeenAt is not before createdAt; whatever DMs of other unknown       *)
(* senders arrive in between.                                              *)
(***************************************************************************)
C21_OnePairingReply ==
    clock < PairingTtl =>
        \A user \in { Eve, Alice } :
            LET room == DmRoom(user)
                mine == DmsOf(user)
                had == FromEarlierRequests(user._id)
            IN  /\ \A f \in forwarded : f.u # user
                /\ Sent(room, "pairing") <= (IF had THEN 0 ELSE 1)
                /\ (mine # {} /\ \A i \in mine : handlers[i].pc = "done") =>
                      /\ Sent(room, "pairing") = (IF had THEN 0 ELSE 1)
                      /\ Cardinality(RequestsOf(user._id)) = 1
                      /\ \A r \in RequestsOf(user._id) :
                            /\ r.lastSeenAt >= r.createdAt
                            /\ IF had THEN r \in { [q EXCEPT !.lastSeenAt = t] :
                                                      q \in Range(EarlierRequests),
                                                      t \in 0..MaxClock }
                               ELSE SentBy(r.code, room, "pairing") = 1

\* The sender is on the DM allow-list: the normalized id or the normalized
\* username is in the store or in the configured allowFrom, or the wildcard
\* is.
Listed(user) ==
    \E entry \in allowFromStore["rocketchat"] \cup
                  { normalizeAllowEntry(config.allowFrom[k]) : k \in DOMAIN config.allowFrom } :
        \/ entry = "*"
        \/ entry = normalizeAllowEntry(user._id)
        \/ entry = normalizeAllowEntry(user.username)

\* Handler i is the handler of a DM and leaves the read of the allow-list.
LeavesDmGate(i) ==
    /\ i \in DOMAIN handlers
    /\ handlers[i].pc = "dmAllow"
    /\ handlers'[i].pc # "dmAllow"

\* The calls of addToAllowFrom for an entry that have returned.
Added(entry) ==
    { j \in DOMAIN handlers : /\ handlers[j].call.op = "allow"
                               /\ handlers[j].call.target = entry
                               /\ handlers[j].pc = "done" }

(***************************************************************************)
(* C22.  Under dmPolicy allowlist, pairing or owner-approval, a DM whose   *)
(* sender is on the allow-list when the list has been read goes on to be   *)
(* forwarded, and creates no pairing request and no approval; under        *)
(* allowlist a DM of a sender who is not on it is dropped.                 *)
(***************************************************************************)
C22_ListedPasses ==
    [][\A i \in DOMAIN handlers :
          LeavesDmGate(i) =>
              IF Listed(handlers[i].msg.u)
              THEN /\ handlers'[i].pc = "dispatch"
                   /\ \E f \in forwarded' : f._id = handlers[i].msg._id /\ f.isAllowed
                   /\ pairingStore' = pairingStore
                   /\ stores' = stores
              ELSE config.dmPolicy = "allowlist" =>
                      handlers'[i].pc = "done" /\ forwarded' = forwarded]_vars

\* eve has been added to the store's allow-list and her DM after that has
\* gone to the agent.
C22_Witness ==
    /\ config.dmPolicy \in { "allowlist", "pairing", "owner-approval" }
    /\ config.allowFrom = <<>>
    /\ \E j \in Added("uE") : \E i \in DmsOf(Eve) :
          j < i /\ \E f \in forwarded : f._id = handlers[i].msg._id

(***************************************************************************)
(* C22, its other parts.  Under dmPolicy disabled no DM goes to the agent; *)
(* and once addToAllowFrom has returned for a sender, a DM of the sender   *)
(* that arrives after the call and comes to the DM gate after the return   *)
(* goes on to be forwarded.                                                *)
(***************************************************************************)
C22_AddedThenForwarded ==
    /\ [](config.dmPolicy = "disabled" => \A f \in forwarded : isGroupRoom(f.rid))
    /\ [][\A i \in DOMAIN handlers :
            (/\ LeavesDmGate(i)
             /\ config.dmPolicy \in { "allowlist", "pairing", "owner-approval" }
             /\ \E j \in Added(handlers[i].msg.u._id) : j < i)
            => /\ handlers'[i].pc = "dispatch"
               /\ \E f \in forwarded' : f._id = handlers[i].msg._id]_vars

\* The requests of a store that have not expired at a time.
LiveAt(requests, now) == SelectSeq(requests, LAMBDA r : r.createdAt > now - PairingTtl)

\* The call of handler i writes the store with a new request.
WritesNewRequest(i) ==
    /\ i \in DOMAIN handlers
    /\ handlers[i].pc = "pairWrite"
    /\ handlers'[i].pc # "pairWrite"
    /\ handlers[i].upsert.created

(***************************************************************************)
(* C23.  The pairing store holds at most MAX_PENDING requests, at most one *)
(* for a requester id, and none that had expired when the call that wrote  *)
(* the store read the time.                                                *)
(***************************************************************************)
C23_StoreBounded ==
    /\ Len(pairingStore) <= MAX_PENDING
    /\ \A k, l \in DOMAIN pairingStore :
          pairingStore[k].id = pairingStore[l].id => k = l
    /\ \A i \in DOMAIN handlers :
          handlers[i].pc = "pairWrite" =>
              LET written == handlers[i].upsert.store
              IN  /\ Len(written) <= MAX_PENDING
                  /\ \A k \in DOMAIN written :
                        written[k].createdAt > written[Len(written)].lastSeenAt - PairingTtl
                        \/ handlers[i].upsert.created = FALSE

(***************************************************************************)
(* C23, the eviction.  When a call writes the request of a new requester   *)
(* and the store holds MAX_PENDING live requests, the write removes one    *)
(* request from the store, and no request that stays is older.             *)
(***************************************************************************)
C23_OldestEvicted ==
    [][\A i \in DOMAIN handlers :
          WritesNewRequest(i) =>
              LET new == handlers[i].upsert.store[Len(handlers[i].upsert.store)]
                  live == LiveAt(pairingStore, new.createdAt)
                  gone == { k \in DOMAIN live :
                              \A l \in DOMAIN pairingStore' : pairingStore'[l] # live[k] }
              IN  (/\ \A k \in DOMAIN live : live[k].id # new.id
                   /\ Len(live) >= MAX_PENDING) =>
                         /\ Cardinality(gone) = 1
                         /\ \A k \in gone : \A l \in DOMAIN live :
                               live[k].createdAt <= live[l].createdAt]_vars

\* Handler i, of a message in a room, comes to its verdict in this step: it
\* has awaited the bot's user, the room or the file of the room users, and
\* returns or hands the message to the agent.
Decides(i) ==
    /\ handlers[i].pc \in { "me", "room", "readRoomUsers" }
    /\ handlers'[i].pc \in { "done", "dispatch", "end" }
    /\ isGroupRoom(handlers[i].msg.rid)

\* The approved users of the room that the handler's isRoomUserApproved
\* sees: what its read of the file returns, or the cached store.
ApprovedSeen(i) ==
    IF handlers[i].pc = "readRoomUsers" THEN roomUsers.file
    ELSE roomUsers.objs[roomUsers.cache]

\* The sender is a room approver, in canInteract, dynamically approved for
\* the room, or a global approver.
MayInteract(i) ==
    LET user == handlers[i].msg.u
        roomConfig == RoomConfig(handlers[i].msg.rid)
    IN  \/ isApprover(user._id, user.username, roomConfig.roomApprovers)
        \/ isApprover(user._id, user.username, roomConfig.canInteract)
        \/ \E k \in DOMAIN ApprovedSeen(i) :
              \/ ApprovedSeen(i)[k].userId = user._id
              \/ toLowerCase(ApprovedSeen(i)[k].username) = toLowerCase(user.username)
        \/ isApprover(user._id, user.username, config.ownerApproval.approvers)

(***************************************************************************)
(* C24.  In a room with canInteract or roomApprovers configured, a message *)
(* that is no command is handed to the agent if and only if its sender may *)
(* interact and the room's responseMode is not mention-only or the message *)
(* mentions the bot; a sender who may not interact gets one `not           *)
(* authorized' reply if the message mentions the bot and                   *)
(* onMentionUnauthorized is reply, and none otherwise.                     *)
(***************************************************************************)
C24_RoomAclVerdict ==
    [][\A i \in DOMAIN handlers :
          LET msg == handlers[i].msg
              roomConfig == RoomConfig(msg.rid)
              mentioned == BotUserId \in mentions(msg.msg)
              passes == /\ MayInteract(i)
                        /\ roomConfig.responseMode # "mention-only" \/ mentioned
              refused == /\ ~MayInteract(i)
                         /\ mentioned
                         /\ roomConfig.onMentionUnauthorized = "reply"
          IN  (/\ Decides(i)
               /\ msg.msg \in AclTexts
               /\ Len(roomConfig.canInteract) > 0 \/ Len(roomConfig.roomApprovers) > 0)
              => /\ passes <=> handlers'[i].pc = "dispatch"
                 /\ passes <=> \E f \in forwarded' : f._id = msg._id
                 /\ CopiesIn([to |-> msg.rid, text |-> "not authorized", by |-> i],
                             sentTexts') = (IF refused THEN 1 ELSE 0)
                 /\ \A to \in { "r1", "dE", "dA", "dB", "rOps" } :
                      \A text \in { "not authorized", "room users", "room results" } :
                          CopiesIn([to |-> to, text |-> text, by |-> i], sentTexts')
                              <= (IF refused /\ to = msg.rid /\ text = "not authorized"
                                  THEN 1 ELSE 0)]_vars

\* In a room with responseMode mention-only and canInteract [@alice]: a
\* message of alice that mentions the bot has gone to the agent, one that
\* does not has been dropped, and eve, who is in none of the lists, has
\* been told that she is not authorized.
C24_Witness ==
    /\ "r1" \in DOMAIN config.rooms
    /\ config.rooms["r1"] = ExampleRoomConfig
    /\ \E i, j, k \in DOMAIN handlers :
          /\ handlers[i].msg.u = Alice /\ handlers[i].msg.msg = "@bot hi"
          /\ \E f \in forwarded : f._id = handlers[i].msg._id
          /\ handlers[j].msg.u = Alice /\ handlers[j].msg.msg = "hi"
          /\ handlers[j].pc = "done"
          /\ \A f \in forwarded : f._id # handlers[j].msg._id
          /\ handlers[k].msg.u = Eve /\ handlers[k].msg.msg = "@bot hi"
          /\ handlers[k].pc = "done"
          /\ SentBy(k, "r1", "not authorized") = 1

\* The approvals for a room, in the file of the queue and in the store
\* objects.
RoomApprovals(rid) ==
    { k \in DOMAIN queueFile : queueFile[k].type = "room" /\ queueFile[k].targetId = rid }
    \cup UNION { { k \in DOMAIN stores[o] :
                     stores[o][k].type = "room" /\ stores[o][k].targetId = rid } :
                 o \in DOMAIN stores }

OneEntryEach(approved) ==
    \A k, l \in DOMAIN approved :
        (\/ approved[k].userId = approved[l].userId
         \/ toLowerCase(approved[k].username) = toLowerCase(approved[l].username))
        => k = l

\* The call of handler i, of one of the functions of room-users.ts, gets
\* its result in this step.
RoomCallDecides(i, op) ==
    /\ i \in DOMAIN handlers'
    /\ handlers'[i].call.op = op
    /\ handlers'[i].room.result # "none"
    /\ i \in DOMAIN handlers => handlers[i].room.result = "none"

\* The list the call works on: what its read of the file returns, or the
\* cached store.
RoomListSeen(i) ==
    IF i \in DOMAIN handlers /\ handlers[i].pc = "readRoomUsers" THEN roomUsers.file
    ELSE roomUsers.objs[roomUsers.cache]

\* The entry or the call names the user, by id or by username.
SameRoomUser(userId, username, user) ==
    userId = user._id \/ toLowerCase(username) = toLowerCase(user.username)

(***************************************************************************)
(* C26.  Every list of approved users, in the file, in a store object and  *)
(* in a text being written, holds at most one entry for a user id and at   *)
(* most one for a username whatever its case.                              *)
(***************************************************************************)
C26_OneEntryPerUser ==
    /\ OneEntryEach(roomUsers.file)
    /\ \A o \in DOMAIN roomUsers.objs : OneEntryEach(roomUsers.objs[o])
    /\ \A i \in DOMAIN handlers : OneEntryEach(handlers[i].room.snapshot)

(***************************************************************************)
(* C26, addRoomUser.  For a user whom an entry of the list matches by id   *)
(* or by username the call reports existing and leaves the list and the    *)
(* file as they are; for another user it reports added and the list has    *)
(* the user's entry at its end.                                            *)
(***************************************************************************)
C26_AddReportsExisting ==
    [][\A i \in DOMAIN handlers' :
          RoomCallDecides(i, "addRoomUser") =>
              LET h == handlers'[i]
                  seen == RoomListSeen(i)
                  list == roomUsers'.objs[h.store]
              IN  IF \E k \in DOMAIN seen :
                        \/ seen[k].userId = h.room.userId
                        \/ toLowerCase(seen[k].username) = toLowerCase(h.room.username)
                  THEN /\ h.room.result = "existing"
                       /\ list = seen
                       /\ roomUsers'.file = roomUsers.file
                  ELSE /\ h.room.result = "added"
                       /\ list = Append(seen, [userId |-> h.room.userId,
                                               username |-> h.room.username])]_vars

\* zed has been refused because eve's entry has the username, and alice
\* has been added next to eve.
C26_Witness ==
    /\ Len(roomUsers.file) = 2
    /\ \E i, j \in DOMAIN handlers :
          /\ handlers[i].call.op = "addRoomUser" /\ handlers[i].room.userId = "uZ"
          /\ handlers[i].room.result = "existing" /\ handlers[i].pc = "done"
          /\ handlers[j].call.op = "addRoomUser" /\ handlers[j].room.userId = "uA"
          /\ handlers[j].room.result = "added" /\ handlers[j].pc = "done"

(***************************************************************************)
(* C26, removeRoomUser.  When removeRoomUser has returned for a user and   *)
(* no addRoomUser has been called for the user, an isRoomUserApproved that *)
(* is called for the user returns false.                                   *)
(***************************************************************************)
C26_RemovedThenNotApproved ==
    [][\A i \in DOMAIN handlers' :
          (/\ RoomCallDecides(i, "isRoomUserApproved")
           /\ i \notin DOMAIN handlers
           /\ \E j \in DOMAIN handlers :
                 /\ handlers[j].call.op = "removeRoomUser"
                 /\ handlers[j].pc = "done"
                 /\ toLowerCase(handlers[j].room.username)
                       = toLowerCase(handlers'[i].room.username)
           /\ \A j \in DOMAIN handlers :
                 handlers[j].call.op = "addRoomUser" =>
                     /\ handlers[j].room.userId # handlers'[i].room.userId
                     /\ toLowerCase(handlers[j].room.username)
                           # toLowerCase(handlers'[i].room.username))
          => handlers'[i].room.result = "not approved"]_vars

(***************************************************************************)
(* C27.  A message id goes to the agent at most once: a handler hands over *)
(* a message only if no message with its id has been handed over before.   *)
(***************************************************************************)
C27_ForwardedOncePerId ==
    [][\A i \in DOMAIN handlers :
          (handlers[i].pc # "dispatch" /\ handlers'[i].pc = "dispatch")
          => \A f \in forwarded : f._id # handlers[i].msg._id]_vars

\* The file of the queue holds the approval as pending.
PendingInFile(id) ==
    \E k \in DOMAIN queueFile : queueFile[k].id = id /\ queueFile[k].status = "pending"

(***************************************************************************)
(* C28.  A pending approval with an expiresAt that has passed does not     *)
(* stay pending: it becomes expired, if it is not approved or denied.      *)
(***************************************************************************)
C28_ExpiresEventually ==
    \A id \in ExpiryIds :
        (PendingInFile(id) /\ id \in overdue) ~> ~PendingInFile(id)

(***************************************************************************)
(* C29.  When the calls are made one after the other and each has returned *)
(* or thrown, the store a read gets from the cache is the document of the  *)
(* file: a mutation whose write has failed is not in it.                   *)
(***************************************************************************)
C29_CacheAsPersisted ==
    Returned =>
        /\ cache # 0 => stores[cache] = queueFile
        /\ roomUsers.cache # 0 => roomUsers.objs[roomUsers.cache] = roomUsers.file

(***************************************************************************)
(* C30.  isApprover returns true or false, and true iff some non-blank     *)
(* pattern matches the principal: an @handle the username without regard   *)
(* to case, a role:<name> a role of the list its lookup fetched, without   *)
(* regard to case, a bare pattern the user id as written or the username   *)
(* without regard to case.  No pattern and a failed lookup match nothing.  *)
(* When the lookups of the call all succeed or all fail, or the roleCache  *)
(* holds the roles, the result is the same for every order of the          *)
(* patterns.                                                               *)
(***************************************************************************)
SameName(username, name) == username # Undefined /\ toLowerCase(username) = toLowerCase(name)

\* The role patterns among the first k patterns of the call.
RolePatternsTo(a, k) ==
    Cardinality({ j \in 1..k : StartsWithRole(trim(a.patterns[j])) })

\* The lookup for the k-th pattern of the call has fetched the roles: from
\* the cache, which that lookup or one before it in the call has filled.
Fetched(a, k) ==
    a.cached \/ \E n \in 1..RolePatternsTo(a, k) : a.lookups[n] = "ok"

PatternMatches(a, k) ==
    LET pattern == trim(a.patterns[k])
    IN  /\ pattern # ""
        /\ IF StartsWithAt(pattern) THEN SameName(a.username, StripAt(pattern))
           ELSE IF StartsWithRole(pattern)
           THEN /\ Fetched(a, k)
                /\ \E r \in DOMAIN ServerRoles(a.userId) :
                      toLowerCase(ServerRoles(a.userId)[r]) = toLowerCase(StripRole(pattern))
           ELSE pattern = a.userId \/ SameName(a.username, pattern)

ApproverCalls == { i \in DOMAIN handlers : handlers[i].call.op = "isApprover" }

Orders(a) ==
    { [k \in DOMAIN a.patterns |-> a.patterns[p[k]]] :
        p \in { q \in [DOMAIN a.patterns -> DOMAIN a.patterns] :
                   \A x, y \in DOMAIN a.patterns : x # y => q[x] # q[y] } }

SameInEveryOrder(a) ==
    \A patterns \in Orders(a) :
        isApproverOver(a.userId, a.username, patterns, a.lookups, a.cached) = a.result

LookupsAgree(a) ==
    \/ a.cached
    \/ \A n, k \in DOMAIN a.lookups : (a.lookups[n] = "ok") = (a.lookups[k] = "ok")

C30_MatchesSomePattern ==
    \A i \in ApproverCalls :
        LET a == handlers[i].approver
        IN  /\ a.result \in BOOLEAN
            /\ a.result = (\E k \in DOMAIN a.patterns : PatternMatches(a, k))
            /\ LookupsAgree(a) => SameInEveryOrder(a)

\* A lookup of the call has failed, a role pattern has matched after it, and
\* a pattern that is blank has been passed over.
C30_Witness ==
    \E i \in ApproverCalls :
        LET a == handlers[i].approver
        IN  /\ ~a.cached /\ a.lookups[1] # "ok"
            /\ a.result
            /\ \E k \in DOMAIN a.patterns : trim(a.patterns[k]) = ""
            /\ \A k \in DOMAIN a.patterns : PatternMatches(a, k) => StartsWithRole(trim(a.patterns[k]))

\* C30 as stated: the result is the same for every order of the patterns,
\* whatever the lookups get.
C30_AnyOrder ==
    \A i \in ApproverCalls : SameInEveryOrder(handlers[i].approver)

(***************************************************************************)
(* C31.  Once stopTyping has run for a forwarded message, its timeout and  *)
(* its interval are cancelled and no typing-start call is made for it any  *)
(* more, however the timeout, the typing call in flight and the return of  *)
(* the dispatch interleave.                                                *)
(***************************************************************************)
C31_NoTypingAfterStop ==
    \A i \in DOMAIN handlers :
        handlers[i].typing.stopped =>
            /\ ~handlers[i].typing.timer
            /\ ~handlers[i].typing.interval
            /\ handlers[i].typing.late = 0

(***************************************************************************)
(* C32.  A message that is dropped -- by dmPolicy disabled, by dmPolicy    *)
(* allowlist for a sender who is not listed, by groupPolicy disabled, by   *)
(* groupPolicy allowlist for a room that is not listed, as a repeated      *)
(* request while the approval is pending, or by the ACL of a room with     *)
(* onMentionUnauthorized ignore -- is dropped without a message or a       *)
(* typing indicator sent for it and without a file written for it.         *)
(***************************************************************************)
AllSentBy(i) == { t \in BagToSet(sentTexts) : t.by = i }

C32_DropsAreSilent ==
    \A i \in DOMAIN handlers :
        handlers[i].dropped # "none" =>
            /\ AllSentBy(i) = {}
            /\ handlers[i].typing.starts = 0
            /\ ~handlers[i].wrote

\* The same for every drop but the repeated request.
DropsButPending ==
    \A i \in DOMAIN handlers :
        handlers[i].dropped \notin { "none", "pending" } =>
            /\ AllSentBy(i) = {}
            /\ handlers[i].typing.starts = 0
            /\ ~handlers[i].wrote

\* A repeated request sends nothing.
PendingSendsNothing ==
    \A i \in DOMAIN handlers : handlers[i].dropped = "pending" => AllSentBy(i) = {}

(***************************************************************************)
(* C33.  parseApprovalCommand, on the trimmed text and whatever the case   *)
(* of the keyword: pending, list and list pending are the list command;    *)
(* approve, yes, ok or y and targets after white space is an approve, and  *)
(* deny, no, n or reject and targets a deny, where the targets are the     *)
(* words between white space and commas, in their order and as they are    *)
(* written, at least one, and all on one line; any other text is no        *)
(* command.                                                                *)
(***************************************************************************)
ParseCalls == { i \in DOMAIN handlers : handlers[i].call.op = "parseApprovalCommand" }

\* The k-th to the l-th piece make a word: no separator in it, one or the
\* end of the text on either side.
IsWord(text, k, l) ==
    /\ k <= l
    /\ \A j \in k..l : text[j] \notin Separators
    /\ k = 1 \/ text[k - 1] \in Separators
    /\ l = Len(text) \/ text[l + 1] \in Separators

WordsOf(text) ==
    LET spans == { x \in (DOMAIN text) \X (DOMAIN text) : IsWord(text, x[1], x[2]) }
        rank(x) == Cardinality({ y \in spans : y[1] <= x[1] })
    IN  [n \in 1..Cardinality(spans) |->
            LET x == CHOOSE y \in spans : rank(y) = n
            IN  SubSeq(text, x[1], x[2])]

Stripped(text) ==
    LET inside == { k \in DOMAIN text : text[k] \notin WhiteSpace }
    IN  IF inside = {} THEN <<>>
        ELSE SubSeq(text, CHOOSE k \in inside : \A j \in inside : k <= j,
                          CHOOSE k \in inside : \A j \in inside : k >= j)

\* The text is the keyword, white space and targets.
Commands(text, words) ==
    /\ Len(text) >= 3
    /\ toLowerCase(text[1]) \in words
    /\ text[2] \in WhiteSpace
    /\ WordsOf(Tail(text)) # <<>>

\* The targets are on one line.
OnOneLine(text) ==
    \A k \in DOMAIN text :
        text[k] = LineBreak => \A j \in 2..k : text[j] \in WhiteSpace

Expected(text, oneLine) ==
    LET t == Stripped(text)
    IN  IF lowerCased(t) \in { << "pending" >>, << "list" >>, << "list", Blank, "pending" >> }
        THEN [action |-> "list", targets |-> <<>>]
        ELSE IF Commands(t, { "approve", "yes", "ok", "y" }) /\ (oneLine => OnOneLine(t))
        THEN [action |-> "approve", targets |-> WordsOf(Tail(t))]
        ELSE IF Commands(t, { "deny", "no", "n", "reject" }) /\ (oneLine => OnOneLine(t))
        THEN [action |-> "deny", targets |-> WordsOf(Tail(t))]
        ELSE NoCommand

C33_ParsesCommands ==
    \A i \in ParseCalls :
        handlers[i].parse.result = Expected(handlers[i].parse.text, TRUE)

\* A command in a short form and in capitals, with two targets that a comma
\* and blanks separate, and blanks around it.
C33_Witness ==
    \E i \in ParseCalls :
        /\ handlers[i].parse.text = << "OK", Blank, "@eve", ",", "room:r1" >>
        /\ handlers[i].parse.result =
              [action |-> "approve", targets |-> << << "@eve" >>, << "room:r1" >> >>]

\* C33 as stated: the targets are the words between white space of any kind
\* and commas.
C33_AnyWhiteSpace ==
    \A i \in ParseCalls :
        handlers[i].parse.result = Expected(handlers[i].parse.text, FALSE)

(***************************************************************************)
(* C34.  subscribeToUserEvent is deduplicated by name for the whole life   *)
(* of the session: whatever the connection state and however many          *)
(* reconnects, at most one sub request is written for an event name, and   *)
(* a call for a name that was passed before writes nothing and takes no    *)
(* id.                                                                     *)
(***************************************************************************)
\* The sub requests written to a socket for the event name.
UserSubsEmitted(e) == { c \in userSubCalls : c.name = e /\ c.sock # NoSock }

\* subscribeToUserEvent was called for the name at some time: only that call
\* sets the entry, and nothing removes it.
CalledFor(e) == subscriptions[e] # 0

AtMostOneUserSub == \A e \in UserEvents : Cardinality(UserSubsEmitted(e)) <= 1

LaterCallEmitsNothing ==
    \A e \in UserEvents :
        (CalledFor(e) /\ SubscribeToUserEvent(e)) =>
            /\ userSubCalls' = userSubCalls
            /\ messageId' = messageId
            /\ unanswered' = unanswered

C34_OneSubPerName == []AtMostOneUserSub /\ [][LaterCallEmitsNothing]_vars

\* Both names were subscribed, one on the first socket when it was live and
\* one while the session was not connected, which wrote nothing; the session
\* is live again on a later socket.
C34_Witness ==
    /\ isConnected /\ ws > 1 /\ WsOpen(World)
    /\ \E c \in userSubCalls : c.sock = 1
    /\ \E c \in userSubCalls : c.sock = NoSock
    /\ \A e \in UserEvents : CalledFor(e)

(***************************************************************************)
(* C35.  A decision changes only the record it read: the write of an       *)
(* approveRequest or denyRequest changes the one pending approval it       *)
(* matched and the write of a createApproval changes or adds one approval, *)
(* every other approval of the store staying as it was, and a call that    *)
(* matches nothing writes nothing.                                         *)
(***************************************************************************)
\* The ids of the approvals that are not the same in the two contents of the
\* store, those that are in one only included.
Changed(before, after) ==
    { id \in { before[k].id : k \in DOMAIN before } \cup { after[k].id : k \in DOMAIN after } :
        Approval(before, id) # Approval(after, id) }

\* What a call that starts now works on: the cached store, and the file when
\* nothing is cached.
StoreView == IF cache = 0 THEN queueFile ELSE stores[cache]

\* The step is one of a createApproval, approveRequest or denyRequest.
DecisionStep ==
    \E i \in DOMAIN handlers' :
        /\ handlers'[i].call.op \in { "create", "approve", "deny" }
        /\ i \in DOMAIN handlers => handlers'[i] # handlers[i]

NoMatchNoWrite ==
    \A i \in DOMAIN handlers :
        (/\ handlers[i].call.op \in { "approve", "deny" }
         /\ handlers[i].pc = "done"
         /\ handlers[i].rec = 0) => ~handlers[i].wrote

C35_OnlyTheRecordRead ==
    /\ []NoMatchNoWrite
    /\ [][DecisionStep =>
            Cardinality(Changed(StoreView, IF cache' = 0 THEN queueFile' ELSE stores'[cache'])) <= 1]_vars

(***************************************************************************)
(* C36.  At most one reconnect timeout is pending at any time, at most one *)
(* connect() is unsettled while a timeout is pending, and a connection     *)
(* that fails schedules one reconnect and doubles the delay once, although *)
(* both its close listener and the catch of its connect() call             *)
(* scheduleReconnect.                                                      *)
(***************************************************************************)
\* The connect() calls whose promise is pending.
InFlight == { s \in DOMAIN attempt : attempt[s].kind # "none" /\ ~attempt[s].settled }

\* The reconnects scheduled so far (each doubles the delay), and the sockets
\* that have failed or closed.
Scheduled == { i \in DOMAIN schedLog : schedLog[i] # LiveMark }
Ended == { s \in DOMAIN sock : sock[s] \in { "ERRORED", "CLOSED" } }

C36_OneReconnectPerFailure ==
    /\ timersLive.reconnect <= 1
    /\ reconnectTimeout => Cardinality(InFlight) <= 1
    /\ Cardinality(Scheduled) <= Cardinality(Ended)

(***************************************************************************)
(* C37.  A denial does not last: under owner approval, once the messages   *)
(* that a sender (a room) sent after their approval was denied have been   *)
(* handled, the store holds a new pending approval for the same target and *)
(* type, the approvers have been notified on every notify channel and the  *)
(* sender (the room) has been told to wait, and the denied approval is     *)
(* still denied.                                                           *)
(***************************************************************************)
\* The handlers of the messages of the room (the DM room of a sender).
HandlersIn(rid) == { i \in DOMAIN handlers : handlers[i].msg.rid = rid }

AskedAgain(denied, rid) ==
    (HandlersIn(rid) # {} /\ \A i \in HandlersIn(rid) : handlers[i].pc = "done") =>
        /\ \A store \in StoreViews : Approval(store, denied.id) = { denied }
        /\ \E k \in DOMAIN queueFile :
              /\ queueFile[k].id # denied.id
              /\ queueFile[k].targetId = denied.targetId
              /\ queueFile[k].type = denied.type
              /\ queueFile[k].status = "pending"
        /\ \A k \in DOMAIN config.ownerApproval.notifyChannels :
              Sent(config.ownerApproval.notifyChannels[k], "approval-request") >= 1
        /\ Sent(rid, "waiting") >= 1

C37_DenialNotSticky == AskedAgain(DeniedOfEve, "dE") /\ AskedAgain(DeniedOfRoom, "r1")

(***************************************************************************)
(* C38.  A message event with a non-empty reactions map is never handed to *)
(* the agent, the first delivery of a message id that matches no tracked   *)
(* approval included.                                                      *)
(***************************************************************************)
\* Handler i has handed its message to the agent.
HandedOver(i) == handlers[i].pc = "dispatch" \/ handlers[i].typing.stopped

C38_ReactedNeverForwarded ==
    \A i \in DOMAIN handlers : handlers[i].msg.reactions # <<>> => ~HandedOver(i)

(***************************************************************************)
(* C39.  A first connect() that fails rejects the promise its caller       *)
(* awaits and the session reconnects all the same, unless disconnect() is  *)
(* called: the first reconnect is scheduled with the base delay when the   *)
(* socket closes, and whenever all sockets opened so far are closed the    *)
(* reconnect timeout is armed; the session can become live later and call  *)
(* onConnect and onMessage.                                                *)
(***************************************************************************)
\* The connect() of the caller has been rejected.
StartFailed == attempt[1].kind = "initial" /\ attempt[1].outcome = "rejected"

C39_ReconnectsAfterFailedStart ==
    (StartFailed /\ shouldReconnect /\ sock[1] = "CLOSED") =>
        /\ schedLog # <<>> /\ schedLog[1] = BaseDelayMs
        /\ (\A s \in DOMAIN sock : sock[s] \in { "NEW", "CLOSED" }) => reconnectTimeout

\* After the failed start the session is live on a later socket and has
\* handed a message to onMessage.
C39_Witness ==
    /\ StartFailed
    /\ Live /\ ws > 1
    /\ \E i \in DOMAIN schedLog : schedLog[i] = LiveMark
    /\ handlers # <<>>

(***************************************************************************)
(* C40.  Every reply that the approval notification and the pending list   *)
(* show for a pending approval, sent as it stands by an approver, is       *)
(* parsed as the approve or deny action it names and resolves to that      *)
(* pending approval.                                                       *)
(***************************************************************************)
ReplyCalls == { i \in DOMAIN handlers : handlers[i].call.op = "reply" }

C40_AdvertisedRepliesWork ==
    \A i \in ReplyCalls :
        /\ handlers[i].parse.result.action = handlers[i].advert.action
        /\ handlers[i].advert.found = handlers[i].advert.rec

====
